---------------------------- MODULE Spec2Model ----------------------------
(***************************************************************************)
(* Model of the mjolnir airflow plugin (airflow/plugins/mjolnir_plugin.py) *)
(* and of the way the mjolnir DAG (airflow/dags/mjolnir.py) drives it.     *)
(*                                                                         *)
(* Python strings are sequences of tokens: a token is one character where  *)
(* the code looks at characters (memory specs, separators) and an opaque   *)
(* run of characters elsewhere.  "/", "." and "=" are always tokens of     *)
(* their own.  Dynamically typed python values are tagged records.         *)
(***************************************************************************)
EXTENDS Integers, Sequences, FiniteSets, TLC

(* ------------------------------------------------------------------ *)
(* python values                                                      *)
(* ------------------------------------------------------------------ *)
NoneVal == [t |-> "none"]
StrVal(s) == [t |-> "str", s |-> s]
IntVal(n) == [t |-> "int", n |-> n]
ListVal(xs) == [t |-> "list", xs |-> xs]

\* The outcome of a python call: a value, or a raised exception.
Ok(v) == [ok |-> TRUE, v |-> v]
Raise(e) == [ok |-> FALSE, err |-> e]

\* The element of a one-element set.  The({ e(x) : x \in {v} }) is e with x
\* bound to the value of v, which is then computed once.
The(S) == CHOOSE x \in S : TRUE

\* dict(a, **b): the keys of both, b's value where both have the key.
DictUpdate(a, b) ==
    [k \in (DOMAIN a) \cup (DOMAIN b) |-> IF k \in DOMAIN b THEN b[k] ELSE a[k]]

EmptyDict == [k \in {} |-> NoneVal]

(* ------------------------------------------------------------------ *)
(* module constants                                                   *)
(* ------------------------------------------------------------------ *)
KNOWN_TRANSFORMERS ==
    { "dbn", "hyperparam", "norm_query_clustering",
      "train", "feature_selection", "make_folds",
      "feature_vectors", "query_clicks_ltr" }

AUTO_DETECT_CONFIG ==
    [ agg_memory_limit |-> StrVal(<<"1", "T">>),
      agg_cores_limit |-> 450,
      executor_max_memory |-> StrVal(<<"5", "0", "G">>),
      baseline_memory_overhead |-> StrVal(<<"5", "1", "2", "M">>),
      bytes_per_value |-> ("make_folds" :> 30) @@ ("hyperparam" :> 30) @@ ("train" :> 20) ]

(* ------------------------------------------------------------------ *)
(* _table_path and _partition_path                                    *)
(* ------------------------------------------------------------------ *)
RECURSIVE CountTok(_, _)
CountTok(s, tok) ==
    IF s = <<>> THEN 0
    ELSE (IF Head(s) = tok THEN 1 ELSE 0) + CountTok(Tail(s), tok)

\* A _table_path that looks an unqualified name up in a default database
\* instead of refusing it.
TablePathDefaultDatabase(qualified_table, lookup) ==
    IF Len(qualified_table) > 0 /\ qualified_table[1] = "hdfs://"
    THEN [ok |-> TRUE, v |-> qualified_table, lookups |-> 0]
    ELSE IF CountTok(qualified_table, ".") > 1
    THEN [ok |-> FALSE, err |-> "ValueError", lookups |-> 0]
    ELSE IF lookup.ok
    THEN [ok |-> TRUE, v |-> lookup.v, lookups |-> 1]
    ELSE [ok |-> FALSE, err |-> lookup.err, lookups |-> 1]

\* A _table_path that cuts the name at its first dot only, split('.', 1),
\* and looks up whatever follows as the table name.
TablePathSplitOnce(qualified_table, lookup) ==
    IF Len(qualified_table) > 0 /\ qualified_table[1] = "hdfs://"
    THEN [ok |-> TRUE, v |-> qualified_table, lookups |-> 0]
    ELSE IF CountTok(qualified_table, ".") = 0
    THEN [ok |-> FALSE, err |-> "ValueError", lookups |-> 0]
    ELSE IF lookup.ok
    THEN [ok |-> TRUE, v |-> lookup.v, lookups |-> 1]
    ELSE [ok |-> FALSE, err |-> lookup.err, lookups |-> 1]

\* _table_path(metastore_conn, qualified_table).  `lookup` is what
\* client.get_table answers if it is called: Ok(location) or Raise(..).
\* The result carries the number of metastore calls made.
\* split('.', 2) cuts at the first two dots, so a name with two or more
\* dots yields three parts and the two-name unpacking raises ValueError.
TablePath(qualified_table, lookup) ==
    IF Len(qualified_table) > 0 /\ qualified_table[1] = "hdfs://"
    THEN [ok |-> TRUE, v |-> qualified_table, lookups |-> 0]
    ELSE IF CountTok(qualified_table, ".") = 0
    THEN [ok |-> FALSE, err |-> "ValueError", lookups |-> 0]
    ELSE IF CountTok(qualified_table, ".") > 1
    THEN [ok |-> FALSE, err |-> "ValueError", lookups |-> 0]
    ELSE IF lookup.ok
    THEN [ok |-> TRUE, v |-> lookup.v, lookups |-> 1]
    ELSE [ok |-> FALSE, err |-> lookup.err, lookups |-> 1]

\* os.path.join(a, b) on posix: an absolute b replaces a; otherwise b is
\* appended, after a separator unless a is empty or already ends in one.
PathJoin2(a, b) ==
    IF Len(b) > 0 /\ b[1] = "/" THEN b
    ELSE IF a = <<>> \/ a[Len(a)] = "/" THEN a \o b
    ELSE a \o <<"/">> \o b

RECURSIVE PathJoin(_, _)
PathJoin(a, parts) ==
    IF parts = <<>> THEN a
    ELSE PathJoin(PathJoin2(a, Head(parts)), Tail(parts))

\* A segment laid out as key/value, a directory per key.
PartitionNameSlash(kv) == kv[1] \o <<"/">> \o kv[2]

\* '{}={}'.format(k, v)
PartitionName(kv) == kv[1] \o <<"=">> \o kv[2]

\* The keys of the partition specs of the helper calls, in string order.
PathKeyOrder == << <<"algorithm">>, <<"wikiid">>, <<"wikiid", "=", "algorithm">> >>

\* A rendering that walks the entries as dict(partition_spec) sorted by key
\* would, not in the order of the spec.
PartitionPathKeySorted(table_path, partition_spec) ==
    PathJoin(table_path,
             The({ [i \in 1..Len(sorted) |-> PartitionName(sorted[i])] :
                   sorted \in { SelectSeq(partition_spec, LAMBDA e : e[1] = PathKeyOrder[1])
                                \o SelectSeq(partition_spec, LAMBDA e : e[1] = PathKeyOrder[2])
                                \o SelectSeq(partition_spec, LAMBDA e : e[1] = PathKeyOrder[3]) } }))

\* _partition_path(table_path, partition_spec)
PartitionPath(table_path, partition_spec) ==
    PathJoin(table_path,
             [i \in 1..Len(partition_spec) |-> PartitionName(partition_spec[i])])

(* ------------------------------------------------------------------ *)
(* AutoSizeSpark                                                      *)
(* ------------------------------------------------------------------ *)
Digits == {"0", "1", "2", "3", "4", "5", "6", "7", "8", "9"}

DigitVal(c) ==
    CASE c = "0" -> 0 [] c = "1" -> 1 [] c = "2" -> 2 [] c = "3" -> 3
      [] c = "4" -> 4 [] c = "5" -> 5 [] c = "6" -> 6 [] c = "7" -> 7
      [] c = "8" -> 8 [] c = "9" -> 9

\* str.isdigit(): not empty and every character a digit.
IsDigit(s) == Len(s) > 0 /\ \A i \in 1..Len(s) : s[i] \in Digits

RECURSIVE DecVal(_)
DecVal(s) ==
    IF s = <<>> THEN 0
    ELSE DecVal(SubSeq(s, 1, Len(s) - 1)) * 10 + DigitVal(s[Len(s)])

\* int(s) of a string: an optional sign and then digits; anything else
\* raises ValueError.
PyIntOfStr(s) ==
    IF IsDigit(s) THEN Ok(DecVal(s))
    ELSE IF Len(s) > 1 /\ s[1] = "-" /\ IsDigit(Tail(s)) THEN Ok(0 - DecVal(Tail(s)))
    ELSE IF Len(s) > 1 /\ s[1] = "+" /\ IsDigit(Tail(s)) THEN Ok(DecVal(Tail(s)))
    ELSE Raise("ValueError")

\* int(v) of a python value
PyInt(v) ==
    IF v.t = "int" THEN Ok(v.n)
    ELSE IF v.t = "str" THEN PyIntOfStr(v.s)
    ELSE Raise("TypeError")

\* A suffix test that compares the character as written.
UpperAsIs(c) == c

\* str.upper() of one character
Upper(c) ==
    CASE c = "t" -> "T" [] c = "g" -> "G" [] c = "m" -> "M"
      [] c = "k" -> "K" [] c = "x" -> "X" [] OTHER -> c

\* The suffixes dict of _parse_memory_to_mb, in iteration order.
MemorySuffixes == << <<"T", 1048576>>, <<"G", 1024>>, <<"M", 1>> >>

RECURSIVE ParseSuffix(_, _)
ParseSuffix(memory, i) ==
    IF i > Len(MemorySuffixes) THEN Raise("Exception")
    ELSE IF Upper(memory[Len(memory)]) = MemorySuffixes[i][1]
    THEN The({ IF n.ok THEN Ok(n.v * MemorySuffixes[i][2]) ELSE n :
               n \in {PyIntOfStr(SubSeq(memory, 1, Len(memory) - 1))} })
    ELSE ParseSuffix(memory, i + 1)

\* AutoSizeSpark._parse_memory_to_mb(memory)
ParseMemoryToMb(memory) ==
    IF memory.t = "int" THEN Ok(memory.n)
    ELSE IF memory.t # "str" THEN Raise("Exception")
    ELSE IF IsDigit(memory.s) THEN Ok(DecVal(memory.s))
    ELSE IF memory.s = <<>> THEN Raise("IndexError")
    ELSE ParseSuffix(memory.s, 1)

\* python's a // b
FloorDiv(a, b) == IF b > 0 THEN a \div b ELSE (0 - a) \div (0 - b)

\* floor(x * b / d) for x, b >= 0 and d > 0, computed without forming
\* x * b (python integers are unbounded, TLC's are 32 bits wide).
MulDiv(x, b, d) == (x \div d) * b + ((x % d) * b) \div d

\* A _detect_dimensions without its assertions, which takes the per-wiki
\* shape when a wiki is given and the single shape otherwise.
DetectDimensionsCoerced(transformer, wiki, metadata) ==
    IF wiki.t = "str"
    THEN IF "num_obs" \notin DOMAIN metadata THEN Raise("KeyError")
         ELSE IF wiki.s \notin DOMAIN metadata["num_obs"] THEN Raise("KeyError")
         ELSE IF "wiki_features" \notin DOMAIN metadata THEN Raise("KeyError")
         ELSE IF wiki.s \notin DOMAIN metadata["wiki_features"] THEN Raise("KeyError")
         ELSE Ok(<<metadata["num_obs"][wiki.s],
                   Len(metadata["wiki_features"][wiki.s])>>)
    ELSE IF "metadata" \notin DOMAIN metadata THEN Raise("KeyError")
         ELSE IF "num_obs" \notin DOMAIN metadata["metadata"] THEN Raise("KeyError")
         ELSE IF "features" \notin DOMAIN metadata["metadata"] THEN Raise("KeyError")
         ELSE Ok(<<metadata["metadata"]["num_obs"],
                   Len(metadata["metadata"]["features"])>>)

\* AutoSizeSpark._detect_dimensions(metadata)
DetectDimensions(transformer, wiki, metadata) ==
    IF transformer = "make_folds"
    THEN IF wiki.t = "none" THEN Raise("AssertionError")
         ELSE IF "num_obs" \notin DOMAIN metadata THEN Raise("KeyError")
         ELSE IF wiki.t # "str" THEN Raise("TypeError")
         ELSE IF wiki.s \notin DOMAIN metadata["num_obs"] THEN Raise("KeyError")
         ELSE IF "wiki_features" \notin DOMAIN metadata THEN Raise("KeyError")
         ELSE IF wiki.s \notin DOMAIN metadata["wiki_features"] THEN Raise("KeyError")
         ELSE Ok(<<metadata["num_obs"][wiki.s],
                   Len(metadata["wiki_features"][wiki.s])>>)
    ELSE IF wiki.t # "none" THEN Raise("AssertionError")
         ELSE IF "metadata" \notin DOMAIN metadata THEN Raise("KeyError")
         ELSE IF "num_obs" \notin DOMAIN metadata["metadata"] THEN Raise("KeyError")
         ELSE IF "features" \notin DOMAIN metadata["metadata"] THEN Raise("KeyError")
         ELSE Ok(<<metadata["metadata"]["num_obs"],
                   Len(metadata["metadata"]["features"])>>)

\* An estimate that counts the feature columns without the label column.
DetectMemoryOverheadMbNoLabel(transformer, config, dim) ==
    The({ IF baseline.ok
          THEN Ok(baseline.v + MulDiv(dim[1] * dim[2],
                                      config.bytes_per_value[transformer], 1048576))
          ELSE baseline :
          baseline \in {ParseMemoryToMb(config.baseline_memory_overhead)} })

\* AutoSizeSpark._detect_memory_overhead_mb(dim).  The float quotient is
\* added to the baseline and truncated by int(): for the non-negative
\* values here that is baseline + floor(bytes_estimate / 2**20).
DetectMemoryOverheadMb(transformer, config, dim) ==
    The({ IF baseline.ok
          THEN Ok(baseline.v + MulDiv(dim[1] * (dim[2] + 1),
                                      config.bytes_per_value[transformer], 1048576))
          ELSE baseline :
          baseline \in {ParseMemoryToMb(config.baseline_memory_overhead)} })

\* dict.get(key, default)
DictGet(d, key, default) == IF key \in DOMAIN d THEN d[key] ELSE default

\* A cap that looks at the core budget only.
LimitMaxExecutorsByCores(config, spark_conf) ==
    The({ IF ~cores.ok THEN cores
          ELSE IF cores.v = 0 THEN Raise("ZeroDivisionError")
          ELSE Ok(FloorDiv(config.agg_cores_limit, cores.v)) :
          cores \in {PyInt(DictGet(spark_conf, "spark.executor.cores", IntVal(1)))} })

\* A cap that rounds the quotients up instead of down.
LimitMaxExecutorsRoundedUp(config, spark_conf) ==
    IF "spark.executor.memory" \notin DOMAIN spark_conf THEN Raise("KeyError")
    ELSE The({
        IF ~mem.ok THEN mem
        ELSE IF ~ovh.ok THEN ovh
        ELSE IF ~limit.ok THEN limit
        ELSE IF ~cores.ok THEN cores
        ELSE IF mem.v + ovh.v = 0 \/ cores.v = 0 THEN Raise("ZeroDivisionError")
        ELSE The({ Ok(IF by_memory < by_cores THEN by_memory ELSE by_cores) :
                   by_memory \in {FloorDiv(limit.v + mem.v + ovh.v - 1, mem.v + ovh.v)},
                   by_cores \in {FloorDiv(config.agg_cores_limit + cores.v - 1, cores.v)} }) :
        mem \in {ParseMemoryToMb(spark_conf["spark.executor.memory"])},
        ovh \in {ParseMemoryToMb(DictGet(spark_conf, "spark.executor.memoryOverhead",
                                         StrVal(<<"2", "5", "6", "m">>)))},
        limit \in {ParseMemoryToMb(config.agg_memory_limit)},
        cores \in {PyInt(DictGet(spark_conf, "spark.executor.cores", IntVal(1)))} })

\* AutoSizeSpark._limit_max_executors(spark_conf)
LimitMaxExecutors(config, spark_conf) ==
    IF "spark.executor.memory" \notin DOMAIN spark_conf THEN Raise("KeyError")
    ELSE The({
        IF ~mem.ok THEN mem
        ELSE IF ~ovh.ok THEN ovh
        ELSE IF ~limit.ok THEN limit
        ELSE IF ~cores.ok THEN cores
        ELSE IF mem.v + ovh.v = 0 \/ cores.v = 0 THEN Raise("ZeroDivisionError")
        ELSE The({ Ok(IF by_memory < by_cores THEN by_memory ELSE by_cores) :
                   by_memory \in {FloorDiv(limit.v, mem.v + ovh.v)},
                   by_cores \in {FloorDiv(config.agg_cores_limit, cores.v)} }) :
        mem \in {ParseMemoryToMb(spark_conf["spark.executor.memory"])},
        ovh \in {ParseMemoryToMb(DictGet(spark_conf, "spark.executor.memoryOverhead",
                                         StrVal(<<"2", "5", "6", "m">>)))},
        limit \in {ParseMemoryToMb(config.agg_memory_limit)},
        cores \in {PyInt(DictGet(spark_conf, "spark.executor.cores", IntVal(1)))} })

\* AutoSizeSpark._read_metadata(): `text` is what HdfsCliHook.text and
\* json.loads yield when they are reached, Ok(metadata) or Raise(..).
\* os.path.join(None, ..) raises TypeError before any read.
ReadMetadata(metadata_dir, text) ==
    IF metadata_dir.t # "str" THEN [ok |-> FALSE, err |-> "TypeError", reads |-> 0]
    ELSE IF text.ok THEN [ok |-> TRUE, v |-> text.v, reads |-> 1]
    ELSE [ok |-> FALSE, err |-> text.err, reads |-> 1]

\* The second half of apply: the cap, written into the copy of the conf.
ApplyLimit(config, spark_conf, reads) ==
    The({ IF m.ok
          THEN [ok |-> TRUE, reads |-> reads,
                v |-> DictUpdate(spark_conf,
                         "spark.dynamicAllocation.maxExecutors" :> IntVal(m.v))]
          ELSE [ok |-> FALSE, err |-> m.err, reads |-> reads] :
          m \in {LimitMaxExecutors(config, spark_conf)} })

\* An apply that sizes with the conf as supplied when the metadata yields
\* no dimensions.
ApplyOverheadOrDefaults(transformer, wiki, config, spark_conf, metadata) ==
    The({ IF ~dim.ok THEN ApplyLimit(config, spark_conf, 1)
          ELSE The({ IF ~o.ok THEN [ok |-> FALSE, err |-> o.err, reads |-> 1]
                     ELSE ApplyLimit(config,
                              DictUpdate(spark_conf,
                                  "spark.executor.memoryOverhead" :> IntVal(o.v)), 1) :
                     o \in {DetectMemoryOverheadMb(transformer, config, dim.v)} }) :
          dim \in {DetectDimensions(transformer, wiki, metadata)} })

\* The first half of apply once the metadata is read: the dimensions and
\* the memory overhead, written into the copy of the conf.
ApplyOverhead(transformer, wiki, config, spark_conf, metadata) ==
    The({ IF ~dim.ok THEN [ok |-> FALSE, err |-> dim.err, reads |-> 1]
          ELSE The({ IF ~o.ok THEN [ok |-> FALSE, err |-> o.err, reads |-> 1]
                     ELSE ApplyLimit(config,
                              DictUpdate(spark_conf,
                                  "spark.executor.memoryOverhead" :> IntVal(o.v)), 1) :
                     o \in {DetectMemoryOverheadMb(transformer, config, dim.v)} }) :
          dim \in {DetectDimensions(transformer, wiki, metadata)} })

\* An apply that gives a kind without a bytes-per-value entry the baseline
\* overhead.
ApplyBaselineOverhead(transformer, wiki, metadata_dir, config, spark_conf, text) ==
    IF transformer \in DOMAIN config.bytes_per_value
    THEN The({ IF ~md.ok THEN md
               ELSE ApplyOverhead(transformer, wiki, config, spark_conf, md.v) :
               md \in {ReadMetadata(metadata_dir, text)} })
    ELSE ApplyLimit(config,
                    DictUpdate(spark_conf, "spark.executor.memoryOverhead" :> IntVal(512)), 0)

\* An apply without the copy of line 157: the entries are written into the
\* dict the caller passed.
ApplyLeavesInPlace(config, spark_conf, result) ==
    [config |-> config, spark_conf |-> IF result.ok THEN result.v ELSE spark_conf]

\* What apply leaves of the two objects it is handed, given its result:
\* line 157 rebinds spark_conf to dict(spark_conf) and lines 161 and 168
\* write into that copy, and self._config is only read (124, 129, 136,
\* 139, 158), so the caller's dict and the config are as they were.
ApplyLeaves(config, spark_conf, result) ==
    [config |-> config, spark_conf |-> spark_conf]

\* AutoSizeSpark(transformer, wiki, metadata_dir, config).apply(spark_conf)
Apply(transformer, wiki, metadata_dir, config, spark_conf, text) ==
    IF transformer \in DOMAIN config.bytes_per_value
    THEN The({ IF ~md.ok THEN md
               ELSE ApplyOverhead(transformer, wiki, config, spark_conf, md.v) :
               md \in {ReadMetadata(metadata_dir, text)} })
    ELSE ApplyLimit(config, spark_conf, 0)

(* ------------------------------------------------------------------ *)
(* MjolnirOperator: construction and the pure helpers of execute      *)
(* ------------------------------------------------------------------ *)

\* The `deploys` default argument the DAG passes to every operator.
deploys ==
    ("mjolnir_venv" :> <<"hdfs://", "analytics-hadoop", "/", "mjolnir_venv.zip">>)
 @@ ("refinery" :> <<"hdfs://", "analytics-hadoop", "/", "refinery">>)
 @@ ("discovery-analytics" :> <<"hdfs://", "analytics-hadoop", "/", "discovery-analytics">>)

\* No transformer argument: None (like '', falsy for `transformer or task_id`).
NoTransformer == ""

DsTemplate == "{{ ds_nodash }}"

Unbuilt == [state |-> "none"]

\* A constructor that validates only an explicit transformer argument and
\* takes a task id on trust.
NewOperatorTrustingTaskId(a) ==
    IF a.transformer # NoTransformer /\ a.transformer \notin KNOWN_TRANSFORMERS
    THEN [state |-> "rejected", err |-> "ValueError", args |-> a]
    ELSE [state |-> "built", args |-> a, task_id |-> a.task_id,
          _transformer |-> IF a.transformer # NoTransformer THEN a.transformer ELSE a.task_id,
          _transformer_args |-> a.transformer_args,
          _deploys |-> deploys,
          _spark_args |-> a.spark_args,
          _table |-> a.table,
          _partition_spec |-> << <<<<"date">>, <<DsTemplate>>>> >> \o a.partition_spec,
          _marker |-> a.marker,
          _auto_size_metadata_dir |-> a.auto_size_metadata_dir]

\* A constructor that stores the caller's partition_spec as given.
NewOperatorSpecAsGiven(a) ==
    IF (IF a.transformer # NoTransformer THEN a.transformer ELSE a.task_id) \notin KNOWN_TRANSFORMERS
    THEN [state |-> "rejected", err |-> "ValueError", args |-> a]
    ELSE [state |-> "built", args |-> a, task_id |-> a.task_id,
          _transformer |-> IF a.transformer # NoTransformer THEN a.transformer ELSE a.task_id,
          _transformer_args |-> a.transformer_args,
          _deploys |-> deploys,
          _spark_args |-> a.spark_args,
          _table |-> a.table,
          _partition_spec |-> a.partition_spec,
          _marker |-> a.marker,
          _auto_size_metadata_dir |-> a.auto_size_metadata_dir]

\* MjolnirOperator.__init__: the operator built, or the rejection.  The
\* constructor touches neither the metastore nor the filesystem.  `args`
\* keeps the call's arguments for the properties; no code reads it.
NewOperator(a) ==
    LET transformer == IF a.transformer # NoTransformer THEN a.transformer ELSE a.task_id
    IN  IF transformer \notin KNOWN_TRANSFORMERS
        THEN [state |-> "rejected", err |-> "ValueError", args |-> a]
        ELSE [state |-> "built", args |-> a, task_id |-> a.task_id,
              _transformer |-> transformer,
              _transformer_args |-> a.transformer_args,
              _deploys |-> deploys,
              _spark_args |-> a.spark_args,
              _table |-> a.table,
              _partition_spec |-> << <<<<"date">>, <<DsTemplate>>>> >> \o a.partition_spec,
              _marker |-> a.marker,
              _auto_size_metadata_dir |-> a.auto_size_metadata_dir]

\* The rendering of one templated string against the run's context.
RenderStr(s, context) ==
    [i \in 1..Len(s) |-> IF s[i] = DsTemplate THEN context.ds_nodash ELSE s[i]]

\* The rendering of the template field _partition_spec.
RenderSpec(spec, context) ==
    [i \in 1..Len(spec) |-> <<RenderStr(spec[i][1], context), RenderStr(spec[i][2], context)>>]

\* MjolnirOperator._output_path()
OutputPath(op, context, lookup) ==
    The({ IF t.ok
          THEN [ok |-> TRUE, lookups |-> t.lookups,
                v |-> PartitionPath(t.v, RenderSpec(op._partition_spec, context))]
          ELSE t :
          t \in {TablePath(RenderStr(op._table, context), lookup)} })

\* A marker check that looks for a marker name of its own, not the one the
\* operator was given.
MarkerPathOfOtherName(op, output_path) == PathJoin2(output_path, <<"_DONE">>)

\* The path _marker_exists asks the filesystem about.
MarkerPath(op, output_path) == PathJoin2(output_path, op._marker)

\* dict.get(key) on an insertion-ordered sequence of <<key, value>> items.
RECURSIVE ItemsGet(_, _)
ItemsGet(items, key) ==
    IF items = <<>> THEN NoneVal
    ELSE IF Head(items)[1] = key THEN Head(items)[2]
    ELSE ItemsGet(Tail(items), key)

\* The argument names the model uses, in python's string order.
ArgNameOrder == <<"num-folds", "output-table", "wiki">>

ArgRank(k) == CHOOSE i \in 1..Len(ArgNameOrder) : ArgNameOrder[i] = k

RECURSIVE InsertByKey(_, _)
InsertByKey(sorted, item) ==
    IF sorted = <<>> THEN <<item>>
    ELSE IF ArgRank(item[1]) < ArgRank(Head(sorted)[1]) THEN <<item>> \o sorted
    ELSE <<Head(sorted)>> \o InsertByKey(Tail(sorted), item)

\* A loop over the items in the order the dict holds them.
SortedItemsAsInserted(items) == items

\* sorted(items, key=lambda x: x[0])
RECURSIVE SortedItems(_)
SortedItems(items) ==
    IF items = <<>> THEN <<>>
    ELSE InsertByKey(SortedItems(SubSeq(items, 1, Len(items) - 1)), items[Len(items)])

RECURSIVE DecStr(_)
DecStr(n) ==
    LET d == <<"0", "1", "2", "3", "4", "5", "6", "7", "8", "9">>
    IN  IF n < 10 THEN <<d[n + 1]>> ELSE DecStr(n \div 10) \o <<d[(n % 10) + 1]>>

\* str(arg) of a cli argument value
PyStr(v) == IF v.t = "str" THEN v.s ELSE DecStr(v.n)

\* An inner loop that passes None on to str() instead of refusing it.
RECURSIVE ArgValuesStringifyNone(_)
ArgValuesStringifyNone(vs) ==
    IF vs = <<>> THEN Ok(<<>>)
    ELSE The({ Ok(<<IF Head(vs).t = "none" THEN <<"None">> ELSE PyStr(Head(vs))>> \o rest.v) :
               rest \in {ArgValuesStringifyNone(Tail(vs))} })

\* The inner loop of _application_args over one value (a list or not).
RECURSIVE ArgValues(_)
ArgValues(vs) ==
    IF vs = <<>> THEN Ok(<<>>)
    ELSE IF Head(vs).t = "none" THEN Raise("TypeError")
    ELSE The({ IF rest.ok THEN Ok(<<PyStr(Head(vs))>> \o rest.v) ELSE rest :
               rest \in {ArgValues(Tail(vs))} })

\* The outer loop of _application_args over the sorted items.
RECURSIVE ArgItems(_)
ArgItems(items) ==
    IF items = <<>> THEN Ok(<<>>)
    ELSE The({ IF ~vals.ok THEN vals
               ELSE The({ IF ~rest.ok THEN rest
                          ELSE Ok(<< <<"--", Head(items)[1]>> >> \o vals.v \o rest.v) :
                          rest \in {ArgItems(Tail(items))} }) :
               vals \in {ArgValues(IF Head(items)[2].t = "list"
                                   THEN Head(items)[2].xs ELSE <<Head(items)[2]>>)} })

\* MjolnirOperator._application_args(context, output_path)
ApplicationArgs(op, context, output_path) ==
    The({ IF tail.ok
          THEN Ok(<< <<op._transformer>>, <<"--date">>, <<context.ds_nodash>>,
                     <<"--output-path">>, output_path >> \o tail.v)
          ELSE tail :
          tail \in {ArgItems(SortedItems(op._transformer_args))} })

DictVal(d) == [t |-> "dict", d |-> d]

\* MjolnirOperator._default_spark_args()
DefaultSparkArgs(op) ==
    ("archives" :> StrVal(op._deploys["mjolnir_venv"] \o <<"#mjolnir_venv">>))
 @@ ("driver_memory" :> StrVal(<<"2", "g">>))
 @@ ("packages" :> StrVal(<<"org.wikimedia.search:mjolnir:0.5-SNAPSHOT">>))
 @@ ("jars" :> StrVal(PathJoin2(op._deploys["refinery"],
                                <<"artifacts", "/", "refinery-hive.jar">>)))
 @@ ("conf" :> DictVal(
        ("spark.yarn.maxAppAttempts" :> StrVal(<<"1">>))
     @@ ("spark.pyspark.python" :> StrVal(<<"mjolnir_venv", "/", "bin", "/", "python">>))
     @@ ("spark.jars.ivySettings" :> StrVal(<<"/", "etc", "/", "maven", "/", "ivysettings.xml">>))
     @@ ("spark.executor.memory" :> StrVal(<<"2", "g">>))
     @@ ("spark.dynamicAllocation.maxExecutors" :> StrVal(<<"6", "0", "0">>))
     @@ ("spark.sql.shuffle.partitions" :> StrVal(<<"1", "0", "0", "0">>))))

\* The per-key mergers of _merge_spark_args.
MergeKeys == {"conf", "packages", "jars"}

\* Mergers whose conf merger lets the override replace the default's map.
MergerConfReplaced(key, a, b) ==
    IF key = "conf" THEN b
    ELSE StrVal(a.s \o <<",">> \o b.s)

Merger(key, a, b) ==
    IF key = "conf" THEN DictVal(DictUpdate(a.d, b.d))
    ELSE StrVal(a.s \o <<",">> \o b.s)

\* _merge_spark_args(default, override)
MergeSparkArgs(default, override) ==
    [k \in (DOMAIN default) \cup (DOMAIN override) |->
        IF k \in MergeKeys /\ k \in DOMAIN default /\ k \in DOMAIN override
        THEN Merger(k, default[k], override[k])
        ELSE IF k \in DOMAIN override THEN override[k] ELSE default[k]]

\* The spark arguments _execute starts from: the defaults, merged with
\* the operator's own when it has any.
MergedSparkArgs(op) ==
    IF DOMAIN op._spark_args # {}
    THEN MergeSparkArgs(DefaultSparkArgs(op), op._spark_args)
    ELSE DefaultSparkArgs(op)

\* _execute up to the creation of the hook: the arguments, the merged and
\* auto-sized spark arguments.  `text` is the metadata read's outcome.
PrepareJob(op, context, output_path, text) ==
    The({ IF ~application_args.ok
          THEN [ok |-> FALSE, err |-> application_args.err, reads |-> 0]
          ELSE The({
              IF ~conf.ok THEN conf
              ELSE [ok |-> TRUE, reads |-> conf.reads,
                    v |-> [t |-> "hook",
                           name |-> <<"mjolnir-", op.task_id, "-", context.ds_nodash, "-spark">>,
                           application_args |-> application_args.v,
                           spark_args |-> DictUpdate(spark_args, "conf" :> DictVal(conf.v)),
                           application |-> PathJoin2(op._deploys["discovery-analytics"],
                                              <<"spark", "/", "mjolnir-utilities.py">>)]] :
              conf \in {Apply(op._transformer, ItemsGet(op._transformer_args, "wiki"),
                              op._auto_size_metadata_dir, AUTO_DETECT_CONFIG,
                              spark_args["conf"].d, text)} }) :
          application_args \in {ApplicationArgs(op, context, output_path)},
          spark_args \in {MergedSparkArgs(op)} })

(* ------------------------------------------------------------------ *)
(* The engine: one Stage, executed by NumProcs orchestrator workers   *)
(* ------------------------------------------------------------------ *)
NumProcs == 2
MaxInvocations == 2

Procs == 1..NumProcs

\* Logical dates (ds_nodash) of the runs.
Dates == {"20200108", "20200115"}

\* Argument values the pipeline's constructor calls use.
HdfsTable == <<"hdfs://", "analytics-hadoop", "/", "training_files">>
HiveTable == <<"mjolnir", ".", "feature_vectors">>
WikiArgs == << <<"wiki", StrVal(<<"enwiki">>)>>, <<"num-folds", IntVal(5)>> >>
TableArgs == << <<"output-table", StrVal(<<"mjolnir", ".", "model_parameters">>)>> >>
NullArgs == << <<"wiki", NoneVal>>, <<"output-table", StrVal(<<"mjolnir", ".", "t">>)>> >>
ConfOverride ==
    ("driver_memory" :> StrVal(<<"3", "g">>))
 @@ ("conf" :> DictVal(("spark.task.cpus" :> IntVal(6))
                    @@ ("spark.executor.cores" :> IntVal(6))))
UpstreamDir ==
    StrVal(<<"hdfs://", "analytics-hadoop", "/", "training_files", "/", "wikiid=enwiki">>)
WikiSpec == << <<<<"wikiid">>, <<"enwiki">>>> >>

CtorCall(transformer, task_id, table, transformer_args, spark_args, metadata_dir) ==
    [transformer |-> transformer, task_id |-> task_id, table |-> table,
     partition_spec |-> WikiSpec, marker |-> <<"_SUCCESS">>,
     transformer_args |-> transformer_args, spark_args |-> spark_args,
     auto_size_metadata_dir |-> metadata_dir]

\* The constructor calls the model draws from: the shapes the DAG uses
\* (a kind given by task id, a sharded and an unsharded auto-sized kind)
\* and the ways of getting each argument wrong.
CtorCalls ==
    << CtorCall(NoTransformer, "dbn", HiveTable, TableArgs, EmptyDict, NoneVal),
       CtorCall("make_folds", "make_folds-enwiki", HdfsTable, WikiArgs, EmptyDict, UpstreamDir),
       CtorCall("hyperparam", "hyperparam-enwiki", HiveTable, TableArgs, ConfOverride, UpstreamDir),
       CtorCall("make_folds", "make_folds-enwiki", HdfsTable, TableArgs, EmptyDict, UpstreamDir),
       CtorCall("hyperparam", "hyperparam-enwiki", HiveTable, WikiArgs, ConfOverride, UpstreamDir),
       CtorCall("train", "train-enwiki", HdfsTable, TableArgs, ConfOverride, NoneVal),
       CtorCall("dbn", "dbn-norm_query", <<"feature_vectors">>, TableArgs, EmptyDict, NoneVal),
       CtorCall("dbn", "dbn-norm_query", <<"mjolnir", ".", "feature_vectors", ".", "v2">>,
                TableArgs, EmptyDict, NoneVal),
       CtorCall("dbn", "dbn-norm_query", HdfsTable, NullArgs, EmptyDict, NoneVal),
       CtorCall(NoTransformer, "dbn-norm_query", HiveTable, TableArgs, EmptyDict, NoneVal),
       CtorCall("hyperparm", "dbn", HdfsTable, TableArgs, ConfOverride, UpstreamDir) >>

\* What the metastore may answer to get_table.
Lookups ==
    { Ok(<<"hdfs://", "analytics-hadoop", "/", "wmf", "/", "feature_vectors">>),
      Raise("NoSuchObjectException") }

\* What reading and decoding _METADATA.JSON may yield.
MetadataTexts ==
    << Raise("IOError"),
       Ok(("num_obs" :> (<<"enwiki">> :> 1000000))
       @@ ("wiki_features" :> (<<"enwiki">> :> <<"f1", "f2", "f3">>))),
       Ok(("num_obs" :> (<<"dewiki">> :> 2000000))
       @@ ("wiki_features" :> (<<"dewiki">> :> <<"f1", "f2">>))),
       Ok("metadata" :> [num_obs |-> 500000, features |-> <<"f1", "f2">>]) >>

VARIABLES
    stage,        \* the MjolnirOperator the pipeline built, or its rejection
    fs,           \* the marker objects present in the shared filesystem
    ex,           \* per worker: the execute call in progress and its effects
    invocations,  \* the number of execute calls made so far
    completed,    \* per date: how often a transformer finished with success
    call          \* a call of one of the plugin's helpers on its own, or NoCall

vars == <<stage, fs, ex, invocations, completed, call>>

NoCall == [fn |-> "none"]

NotReturned == [t |-> "pending"]
Raised == [t |-> "raised"]

IdleExecution ==
    [pc |-> "idle", ds |-> "", output_path |-> NoneVal, marker |-> "unchecked",
     checked |-> NoneVal, job |-> NoneVal, hook |-> NoneVal, ext |-> "none", submits |-> 0, kills |-> 0,
     xcom |-> EmptyDict, ret |-> NotReturned, err |-> "", lookups |-> 0,
     reads |-> 0, md |-> 0]

InFlight == {"pending", "resolved", "executing", "sized", "running"}
Terminal == {"skipped", "succeeded", "failed", "killed"}

Context(p) == [ds_nodash |-> ex[p].ds]

Init ==
    /\ stage = Unbuilt
    /\ fs = {}
    /\ ex = [p \in Procs |-> IdleExecution]
    /\ invocations = 0
    /\ completed = [d \in Dates |-> 0]
    /\ call = NoCall

\* Pipeline construction: MjolnirOperator(...) with some arguments.
Construct ==
    /\ stage.state = "none"
    /\ \E i \in 1..Len(CtorCalls) : stage' = NewOperator(CtorCalls[i])
    /\ UNCHANGED <<call, fs, ex, invocations, completed>>

\* The orchestrator starts execute for logical date d on worker p (PENDING).
Invoke(p, d) ==
    /\ stage.state = "built"
    /\ ex[p].pc \in {"idle"} \cup Terminal
    /\ invocations < MaxInvocations
    /\ ex' = [ex EXCEPT ![p] = [IdleExecution EXCEPT !.pc = "pending", !.ds = d]]
    /\ invocations' = invocations + 1
    /\ UNCHANGED <<call, stage, fs, completed>>

\* A push under the key of airflow's implicit return value.
XcomPushReturnValue(e) == [e EXCEPT !.xcom = DictUpdate(@, "return_value" :> e.output_path)]

\* context['task_instance'].xcom_push(key='output-path', value=output_path)
XcomPush(e) == [e EXCEPT !.xcom = DictUpdate(@, "output-path" :> e.output_path)]

\* A reference that asks for the value airflow stores for what execute
\* returns.
OutputPathRefReturnValue(op) == [task_ids |-> op.task_id, key |-> "return_value"]

\* _output_path(op) of the DAG: the template
\* {{ task_instance.xcom_pull(task_ids='<op.task_id>', key='output-path') }},
\* built from the operator's task id alone.
OutputPathRef(op) == [task_ids |-> op.task_id, key |-> "output-path"]

\* What a run's task instances have pushed, as xcom_pull finds it: under
\* the pushing task's id and the key.  `e` is the execution of `op`.
XcomOf(op, e) ==
    [k \in { <<op.task_id, key>> : key \in DOMAIN e.xcom } |-> e.xcom[k[2]]]

\* The rendering of the template: xcom_pull answers None when nothing was
\* pushed under the task id and key.
XcomPull(pushed, ref) ==
    IF <<ref.task_ids, ref.key>> \in DOMAIN pushed
    THEN pushed[<<ref.task_ids, ref.key>>] ELSE NoneVal

\* execute, first line: output_path = self._output_path()
ExecuteResolve(p) ==
    /\ ex[p].pc = "pending"
    /\ \E lookup \in Lookups :
        \E r \in {OutputPath(stage, Context(p), lookup)} :
            ex' = [ex EXCEPT ![p] =
                IF r.ok
                THEN [@ EXCEPT !.pc = "resolved", !.output_path = StrVal(r.v),
                               !.lookups = r.lookups]
                ELSE [@ EXCEPT !.pc = "failed", !.err = r.err, !.ret = Raised,
                               !.lookups = r.lookups]]
    /\ UNCHANGED <<call, stage, fs, invocations, completed>>

\* An execute that runs the transformer whether or not the marker exists.
ExecuteCheckMarkerIgnored(p) ==
    /\ ex[p].pc = "resolved"
    /\ \E marker_path \in {MarkerPath(stage, ex[p].output_path.s)} :
        ex' = [ex EXCEPT ![p] =
            [@ EXCEPT !.pc = "executing",
                      !.marker = IF marker_path \in fs THEN "present" ELSE "absent",
                      !.checked = StrVal(marker_path)]]
    /\ UNCHANGED <<call, stage, fs, invocations, completed>>

\* An execute that takes a lock on the partition: it goes on to run only
\* while no other call for the same date is past its marker check.
ExecuteCheckMarkerLocked(p) ==
    /\ ex[p].pc = "resolved"
    /\ \E marker_path \in {MarkerPath(stage, ex[p].output_path.s)} :
        /\ marker_path \notin fs =>
              \A q \in Procs \ {p} :
                  ex[q].pc \in {"executing", "sized", "running"} => ex[q].ds # ex[p].ds
        /\ ex' = [ex EXCEPT ![p] =
            IF marker_path \in fs
            THEN [XcomPush(@) EXCEPT !.pc = "skipped", !.marker = "present",
                                     !.checked = StrVal(marker_path), !.ret = NoneVal]
            ELSE [@ EXCEPT !.pc = "executing", !.marker = "absent",
                           !.checked = StrVal(marker_path)]]
    /\ UNCHANGED <<call, stage, fs, invocations, completed>>

\* execute: the marker check, and on a marker the skip and the push.
ExecuteCheckMarker(p) ==
    /\ ex[p].pc = "resolved"
    /\ \E marker_path \in {MarkerPath(stage, ex[p].output_path.s)} :
        ex' = [ex EXCEPT ![p] =
            IF marker_path \in fs
            THEN [XcomPush(@) EXCEPT !.pc = "skipped", !.marker = "present",
                                     !.checked = StrVal(marker_path), !.ret = NoneVal]
            ELSE [@ EXCEPT !.pc = "executing", !.marker = "absent",
                           !.checked = StrVal(marker_path)]]
    /\ UNCHANGED <<call, stage, fs, invocations, completed>>

\* _execute up to the sorted spark arguments.
ExecutePrepare(p) ==
    /\ ex[p].pc = "executing"
    /\ \E i \in 1..Len(MetadataTexts) :
        \E j \in {PrepareJob(stage, Context(p), ex[p].output_path.s, MetadataTexts[i])} :
            ex' = [ex EXCEPT ![p] =
                IF j.ok
                THEN [@ EXCEPT !.pc = "sized", !.job = j.v, !.reads = j.reads,
                               !.md = IF j.reads > 0 THEN i ELSE 0]
                ELSE [@ EXCEPT !.pc = "failed", !.err = j.err, !.ret = Raised,
                               !.reads = j.reads,
                               !.md = IF j.reads > 0 THEN i ELSE 0]]
    /\ UNCHANGED <<call, stage, fs, invocations, completed>>

\* _execute: self._hook = self._make_spark_hook(..); self._hook.submit(..)
\* starts the external process and blocks.
ExecuteSubmit(p) ==
    /\ ex[p].pc = "sized"
    /\ ex' = [ex EXCEPT ![p] =
            [@ EXCEPT !.pc = "running", !.hook = ex[p].job, !.ext = "running",
                      !.submits = @ + 1]]
    /\ UNCHANGED <<call, stage, fs, invocations, completed>>

\* The external transformer finishes its work: it writes the marker into
\* the directory its --output-path argument names and exits with success.
TransformerSucceeds(p) ==
    /\ ex[p].pc = "running" /\ ex[p].ext = "running"
    /\ fs' = fs \cup {PathJoin2(ex[p].hook.application_args[5], stage._marker)}
    /\ ex' = [ex EXCEPT ![p].ext = "exited_ok"]
    /\ completed' = [completed EXCEPT ![ex[p].ds] = @ + 1]
    /\ UNCHANGED <<call, stage, invocations>>

\* The external transformer exits with an error, without a marker.
TransformerFails(p) ==
    /\ ex[p].pc = "running" /\ ex[p].ext = "running"
    /\ ex' = [ex EXCEPT ![p].ext = "exited_err"]
    /\ UNCHANGED <<call, stage, fs, invocations, completed>>

\* submit returns; execute pushes the output path and returns.
SubmitReturns(p) ==
    /\ ex[p].pc = "running" /\ ex[p].ext = "exited_ok"
    /\ ex' = [ex EXCEPT ![p] = [XcomPush(@) EXCEPT !.pc = "succeeded", !.ret = NoneVal]]
    /\ UNCHANGED <<call, stage, fs, invocations, completed>>

\* An execute that marks the partition complete itself once submit is over,
\* whatever its outcome.
SubmitRaisesWritesMarker(p) ==
    /\ ex[p].pc = "running" /\ ex[p].ext = "exited_err"
    /\ ex' = [ex EXCEPT ![p] = [@ EXCEPT !.pc = "failed", !.err = "AirflowException",
                                         !.ret = Raised]]
    /\ fs' = fs \cup {MarkerPath(stage, ex[p].output_path.s)}
    /\ UNCHANGED <<call, stage, invocations, completed>>

\* An execute that submits again when the process failed.
SubmitRaisesRetries(p) ==
    /\ ex[p].pc = "running" /\ ex[p].ext = "exited_err"
    /\ ex' = [ex EXCEPT ![p] = [@ EXCEPT !.ext = "running", !.submits = @ + 1]]
    /\ UNCHANGED <<call, stage, fs, invocations, completed>>

\* submit raises on the non-zero exit; the exception leaves execute.
SubmitRaises(p) ==
    /\ ex[p].pc = "running" /\ ex[p].ext = "exited_err"
    /\ ex' = [ex EXCEPT ![p] = [@ EXCEPT !.pc = "failed", !.err = "AirflowException",
                                         !.ret = Raised]]
    /\ UNCHANGED <<call, stage, fs, invocations, completed>>

\* An on_kill that ends the task without telling the hook.
OnKillNotForwarded(p) ==
    /\ ex[p].pc \in InFlight
    /\ ex[p].ext \in {"none", "running"}
    /\ ex' = [ex EXCEPT ![p] = [@ EXCEPT !.pc = "killed", !.ret = Raised]]
    /\ UNCHANGED <<call, stage, fs, invocations, completed>>

\* An on_kill that checks for a hook first and does nothing without one.
OnKillQuietWithoutHook(p) ==
    /\ ex[p].pc \in InFlight
    /\ ex[p].ext \in {"none", "running"}
    /\ ex' = [ex EXCEPT ![p] =
            IF ex[p].hook = NoneVal
            THEN [@ EXCEPT !.pc = "killed", !.ret = Raised]
            ELSE [@ EXCEPT !.pc = "killed", !.kills = @ + 1, !.ret = Raised,
                           !.ext = IF @ = "running" THEN "killed" ELSE @]]
    /\ UNCHANGED <<call, stage, fs, invocations, completed>>

\* on_kill: self._hook.on_kill(); without a _hook attribute the access
\* raises AttributeError.  The killed execute call does not continue.
\* submit returns or raises as soon as the process has exited, so a kill
\* finds execute either before the submit or waiting on a live process.
OnKill(p) ==
    /\ ex[p].pc \in InFlight
    /\ ex[p].ext \in {"none", "running"}
    /\ ex' = [ex EXCEPT ![p] =
            IF ex[p].hook = NoneVal
            THEN [@ EXCEPT !.pc = "killed", !.err = "AttributeError", !.ret = Raised]
            ELSE [@ EXCEPT !.pc = "killed", !.kills = @ + 1, !.ret = Raised,
                           !.ext = IF @ = "running" THEN "killed" ELSE @]]
    /\ UNCHANGED <<call, stage, fs, invocations, completed>>

Step(p) ==
    \/ ExecuteResolve(p)
    \/ ExecuteCheckMarker(p)
    \/ ExecutePrepare(p)
    \/ ExecuteSubmit(p)
    \/ TransformerSucceeds(p)
    \/ TransformerFails(p)
    \/ SubmitReturns(p)
    \/ SubmitRaises(p)
    \/ OnKill(p)

Next ==
    \/ Construct
    \/ \E p \in Procs, d \in Dates : Invoke(p, d)
    \/ \E p \in Procs : Step(p)

Spec == Init /\ [][Next]_vars

\* The orchestrator's single-active-run policy: no execute call starts for
\* a date while another call for that date is in flight.
NoOverlap(p, d) ==
    \A q \in Procs \ {p} : ex[q].pc \in InFlight => ex[q].ds # d

NextSeq ==
    \/ Construct
    \/ \E p \in Procs, d \in Dates : NoOverlap(p, d) /\ Invoke(p, d)
    \/ \E p \in Procs : Step(p)

SpecSeq == Init /\ [][NextSeq]_vars

(* ------------------------------------------------------------------ *)
(* The helpers called on their own: `call` holds one call, drawn at   *)
(* the start with its arguments, and its outcome once it is made      *)
(* ------------------------------------------------------------------ *)

\* --- AutoSizeSpark(transformer, wiki, metadata_dir, config).apply(conf)
SizerKinds == {"dbn", "make_folds", "hyperparam", "train"}
SizerWikis == {NoneVal, StrVal(<<"enwiki">>), StrVal(<<"dewiki">>)}
SizerDirs == {NoneVal, UpstreamDir}

\* A second budget, to tell the budget's figures from fixed ones.
SmallBudget ==
    [AUTO_DETECT_CONFIG EXCEPT !.agg_memory_limit = StrVal(<<"5", "1", "2", "G">>),
                               !.agg_cores_limit = 100,
                               !.baseline_memory_overhead = StrVal(<<"1", "g">>)]
SizerConfigs == {AUTO_DETECT_CONFIG, SmallBudget}

Absent == [t |-> "absent"]
ExecutorMemories ==
    {StrVal(<<"2", "G">>), StrVal(<<"2", "g">>), StrVal(<<"5", "0", "G">>), IntVal(2048),
     StrVal(<<"2", "T">>)}
ExecutorOverheads == {Absent, StrVal(<<"1", "G">>), IntVal(626)}
ExecutorCores == {Absent, IntVal(6), StrVal(<<"4">>)}

\* A spark conf as _execute hands it to apply: the executor memory is
\* always set (by _default_spark_args), like the maxExecutors default.
SizerConf(memory, overhead, cores) ==
    LET base == ("spark.executor.memory" :> memory)
             @@ ("spark.dynamicAllocation.maxExecutors" :> StrVal(<<"6", "0", "0">>))
        o == IF overhead = Absent THEN EmptyDict
             ELSE "spark.executor.memoryOverhead" :> overhead
        c == IF cores = Absent THEN EmptyDict ELSE "spark.executor.cores" :> cores
    IN  base @@ o @@ c

ManyFeatures == [i \in 1..99 |-> "f"]

\* Artifacts _read_metadata may find: none, the per-wiki shape, the
\* single shape, and one holding both with different figures.
SizerMetadata ==
    << Raise("IOError"),
       Ok(("num_obs" :> (<<"enwiki">> :> 1000000))
       @@ ("wiki_features" :> (<<"enwiki">> :> ManyFeatures))),
       Ok("metadata" :> [num_obs |-> 1000000, features |-> ManyFeatures]),
       Ok(("num_obs" :> (<<"enwiki">> :> 200000))
       @@ ("wiki_features" :> (<<"enwiki">> :> <<"f1", "f2", "f3">>))
       @@ ("metadata" :> [num_obs |-> 500000, features |-> <<"f1", "f2">>])) >>

ApplyCalls ==
    { [fn |-> "apply", done |-> FALSE, out |-> NoneVal,
       transformer |-> k, wiki |-> w, metadata_dir |-> d, config |-> g,
       spark_conf |-> SizerConf(m, o, c), md |-> i] :
      k \in SizerKinds, w \in SizerWikis, d \in SizerDirs, g \in SizerConfigs,
      m \in ExecutorMemories, o \in ExecutorOverheads, c \in ExecutorCores,
      i \in 1..Len(SizerMetadata) }

ApplyCall ==
    /\ call.fn = "apply" /\ ~call.done
    /\ call' = [call EXCEPT !.done = TRUE,
                  !.out = Apply(call.transformer, call.wiki, call.metadata_dir,
                                call.config, call.spark_conf, SizerMetadata[call.md])]
    /\ UNCHANGED <<stage, fs, ex, invocations, completed>>

\* --- apply called by several Stages that execute at the same time and
\* share one config object
SharedApplyArgs ==
    { [transformer |-> k, wiki |-> NoneVal, metadata_dir |-> UpstreamDir,
       spark_conf |-> c, md |-> i] :
      k \in {"dbn", "train"},
      c \in { SizerConf(StrVal(<<"2", "G">>), Absent, IntVal(6)),
              SizerConf(StrVal(<<"2", "G">>), StrVal(<<"1", "G">>), Absent) },
      i \in {1, 3} }

IdleApply == [at |-> "idle"]

\* `config` is the shared object and `config0` what it held at the start;
\* runs[p].profile is the dict caller p passed, as it is now.
SharedApplyRuns ==
    { [fn |-> "shared_apply", done |-> FALSE, out |-> NoneVal,
       config |-> g, config0 |-> g, runs |-> [p \in Procs |-> IdleApply]] :
      g \in SizerConfigs }

\* Caller p builds a conf and enters apply.
SharedApplyEnter(p) ==
    /\ call.fn = "shared_apply" /\ call.runs[p].at \in {"idle", "returned"}
    /\ \E a \in SharedApplyArgs :
          call' = [call EXCEPT !.runs[p] = [at |-> "entered", args |-> a,
                                            profile |-> a.spark_conf]]
    /\ UNCHANGED <<stage, fs, ex, invocations, completed>>

\* Caller p's apply runs against the config as it is now and returns.
SharedApplyReturn(p) ==
    /\ call.fn = "shared_apply" /\ call.runs[p].at = "entered"
    /\ \E a \in {call.runs[p].args} :
       \E result \in {Apply(a.transformer, a.wiki, a.metadata_dir, call.config,
                            call.runs[p].profile, SizerMetadata[a.md])} :
       \E left \in {ApplyLeaves(call.config, call.runs[p].profile, result)} :
          call' = [call EXCEPT !.config = left.config,
                               !.runs[p] = [at |-> "returned", args |-> a,
                                            profile |-> left.spark_conf,
                                            result |-> result]]
    /\ UNCHANGED <<stage, fs, ex, invocations, completed>>

\* --- AutoSizeSpark._parse_memory_to_mb(memory)
MaxMemoryLen == 3
MemoryChars == {"2", "5", "G", "m", "T", "X", "-"}

MemoryStrings == UNION { [1..n -> MemoryChars] : n \in 0..MaxMemoryLen }

MemoryExamples ==
    { StrVal(<<"2", "G">>), StrVal(<<"5", "1", "2", "M">>), StrVal(<<"1", "T">>),
      IntVal(2048), IntVal(0), StrVal(<<"2", "X">>), StrVal(<<"2", "0", "4", "8">>),
      StrVal(<<"1", "0", "2", "4", "m">>), NoneVal, ListVal(<<>>) }

ParseMemoryCalls ==
    { [fn |-> "parse_memory", done |-> FALSE, out |-> NoneVal, memory |-> v] :
      v \in MemoryExamples \cup { StrVal(s) : s \in MemoryStrings } }

ParseMemoryCall ==
    /\ call.fn = "parse_memory" /\ ~call.done
    /\ call' = [call EXCEPT !.done = TRUE, !.out = ParseMemoryToMb(call.memory)]
    /\ UNCHANGED <<stage, fs, ex, invocations, completed>>

\* --- MjolnirOperator._application_args for two Stages that differ in
\* the insertion order of transformer_args only
ArgChoices ==
    ("num-folds" :> {IntVal(5)})
 @@ ("output-table" :> {StrVal(<<"mjolnir", ".", "model_parameters">>)})
 @@ ("wiki" :> {StrVal(<<"enwiki">>), ListVal(<<StrVal(<<"eswiki">>), StrVal(<<"ruwiki">>)>>)})

\* The dicts over some of the argument names.
ArgDicts ==
    UNION { { f \in [K -> UNION {ArgChoices[k] : k \in K}] : \A k \in K : f[k] \in ArgChoices[k] } :
            K \in SUBSET DOMAIN ArgChoices }

\* The insertion orders of a dict: its items in every order of its keys.
ItemOrders(f) ==
    { [i \in 1..Cardinality(DOMAIN f) |-> <<o[i], f[o[i]]>>] :
      o \in { o \in [1..Cardinality(DOMAIN f) -> DOMAIN f] :
              \A i, j \in 1..Cardinality(DOMAIN f) : o[i] = o[j] => i = j } }

StageWithArgs(items) ==
    NewOperator(CtorCall("make_folds", "make_folds-enwiki", HdfsTable, items, EmptyDict, NoneVal))

ApplicationArgsCalls ==
    UNION { { [fn |-> "application_args", done |-> FALSE, out |-> NoneVal,
               a |-> a, b |-> b, ds |-> d, output_path |-> HdfsTable \o <<"/", "date", "=", d>>] :
              a \in ItemOrders(f), b \in ItemOrders(f), d \in Dates } :
            f \in ArgDicts }

ApplicationArgsCall ==
    /\ call.fn = "application_args" /\ ~call.done
    /\ call' = [call EXCEPT !.done = TRUE,
                  !.out = << ApplicationArgs(StageWithArgs(call.a), [ds_nodash |-> call.ds],
                                             call.output_path),
                             ApplicationArgs(StageWithArgs(call.b), [ds_nodash |-> call.ds],
                                             call.output_path) >>]
    /\ UNCHANGED <<stage, fs, ex, invocations, completed>>

\* --- _merge_spark_args(default, override)
Opt(key, v) == IF v = Absent THEN EmptyDict ELSE key :> v

NestedDefault == DictVal(("a" :> IntVal(1)) @@ ("b" :> IntVal(2)))
NestedOverride == DictVal(("b" :> IntVal(3)) @@ ("c" :> IntVal(4)))

\* The operator's defaults, as they are and with a map-valued conf entry,
\* and a profile without dependency lists.
MergeDefaults ==
    { DefaultSparkArgs(StageWithArgs(<<>>)),
      [DefaultSparkArgs(StageWithArgs(<<>>)) EXCEPT
          !["conf"] = DictVal(@.d @@ ("spark.nested" :> NestedDefault))],
      ("driver_memory" :> StrVal(<<"2", "g">>))
   @@ ("conf" :> DictVal("spark.executor.memory" :> StrVal(<<"2", "g">>))) }

ConfOverrides ==
    { Absent,
      DictVal(("spark.executor.memory" :> StrVal(<<"6", "g">>))
           @@ ("spark.executor.cores" :> IntVal(4))),
      DictVal(("spark.executor.cores" :> IntVal(6))
           @@ ("spark.nested" :> NestedOverride)) }

MergeOverrides ==
    { Opt("archives", ar) @@ Opt("packages", pk) @@ Opt("jars", jr)
      @@ Opt("driver_memory", dm) @@ Opt("files", fl) @@ Opt("conf", cf) :
      ar \in {Absent, StrVal(<<"hdfs://", "analytics-hadoop", "/", "extra.zip", "#extra">>)},
      pk \in {Absent, StrVal(<<"org.example:dep:1.0">>)},
      jr \in {Absent, StrVal(<<"hdfs://", "analytics-hadoop", "/", "udf.jar">>)},
      dm \in {Absent, StrVal(<<"8", "g">>)},
      fl \in {Absent, StrVal(<<"hdfs://", "analytics-hadoop", "/", "swift_auth.env">>)},
      cf \in ConfOverrides }

MergeCalls ==
    { [fn |-> "merge_spark_args", done |-> FALSE, out |-> NoneVal,
       default |-> a, override |-> b] :
      a \in MergeDefaults, b \in MergeOverrides }

MergeSparkArgsCall ==
    /\ call.fn = "merge_spark_args" /\ ~call.done
    /\ call' = [call EXCEPT !.done = TRUE,
                            !.out = MergeSparkArgs(call.default, call.override)]
    /\ UNCHANGED <<stage, fs, ex, invocations, completed>>

\* --- MjolnirOperator(...) as the pipeline constructors of the DAG call it
DateEntry == <<<<"date">>, <<DsTemplate>>>>

DagCall(transformer, task_id, table, partition_spec) ==
    [CtorCall(transformer, task_id, table, <<>>, EmptyDict, NoneVal)
        EXCEPT !.partition_spec = partition_spec]

\* make_folds(wiki, vectors, labels)
MakeFoldsCall ==
    DagCall("make_folds", "make_folds-enwiki-dbn-20180215", HdfsTable,
            << DateEntry, <<<<"wikiid">>, <<"enwiki">>>>,
               <<<<"labeling_algorithm">>, <<"dbn">>>>,
               <<<<"feature_set">>, <<"20180215">>>> >>)

\* The calls of query_clicks_ltr, norm_query, dbn, collect_vectors,
\* make_folds, and of hyperparam and train, which pass the _partition_spec
\* of the make_folds operator; two calls that pass no date entry; and two
\* whose partition value is empty or holds a path separator.
DagCalls ==
    { DagCall(NoTransformer, "query_clicks_ltr", <<"mjolnir", ".", "query_clicks_ltr">>,
              << DateEntry >>),
      DagCall(NoTransformer, "norm_query_clustering", <<"mjolnir", ".", "query_clustering">>,
              << DateEntry, <<<<"algorithm">>, <<"norm_query">>>> >>),
      DagCall("dbn", "dbn-norm_query", <<"mjolnir", ".", "labeled_query_page">>,
              << DateEntry, <<<<"algorithm">>, <<"dbn">>>> >>),
      DagCall("feature_vectors", "feature_vectors-norm_query-20180215", HiveTable,
              << DateEntry, <<<<"feature_set">>, <<"20180215">>>> >>),
      MakeFoldsCall,
      DagCall("hyperparam", "hyperparam-enwiki-dbn-20180215",
              <<"mjolnir", ".", "model_parameters">>, NewOperator(MakeFoldsCall)._partition_spec),
      DagCall("train", "train-enwiki-dbn-20180215", HdfsTable,
              NewOperator(MakeFoldsCall)._partition_spec),
      DagCall("dbn", "dbn", HiveTable, WikiSpec),
      DagCall("dbn", "dbn", HiveTable, <<>>),
      DagCall("dbn", "dbn", HiveTable, << <<<<"wikiid">>, <<>>>> >>),
      DagCall("dbn", "dbn", HiveTable, << <<<<"wikiid">>, <<"en", "/", "wiki">>>> >>) }

NewOperatorCalls ==
    { [fn |-> "init", done |-> FALSE, out |-> NoneVal, args |-> a, ds |-> d] :
      a \in DagCalls, d \in Dates }

NewOperatorCall ==
    /\ call.fn = "init" /\ ~call.done
    /\ call' = [call EXCEPT !.done = TRUE, !.out = NewOperator(call.args)]
    /\ UNCHANGED <<stage, fs, ex, invocations, completed>>

\* --- _partition_path and the marker path of _marker_exists ---
MaxSpecLen == 2

PathKeys == { PathKeyOrder[i] : i \in 1..Len(PathKeyOrder) }

\* Partition values: plain, holding '=', empty, holding a separator.
PathValues ==
    { <<"dbn">>, <<"algorithm", "=", "dbn">>, <<>>, <<"en", "/", "wiki">> }

PathEntries == { <<k, v>> : k \in PathKeys, v \in PathValues }

UniqueKeys(spec) ==
    \A i, j \in 1..Len(spec) : i # j => spec[i][1] # spec[j][1]

\* No value of the spec is empty or holds a path separator.
ValidValues(spec) ==
    \A i \in 1..Len(spec) :
        /\ spec[i][2] # <<>>
        /\ \A n \in 1..Len(spec[i][2]) : spec[i][2][n] # "/"

PathSpecs ==
    UNION { { spec \in [1..n -> PathEntries] : UniqueKeys(spec) } : n \in 0..MaxSpecLen }

BasePaths ==
    { <<"hdfs://", "analytics-hadoop", "/", "t">>,
      <<"hdfs://", "analytics-hadoop", "/", "t", "/">> }

Markers == { <<"_SUCCESS">>, <<"_READY">> }

\* One call renders two specs against the same base path: partition_spec,
\* any spec, and other_spec, one with valid values.
PartitionPathCalls ==
    { [fn |-> "partition_path", done |-> FALSE, out |-> NoneVal,
       table_path |-> b, partition_spec |-> spec, other_spec |-> other, marker |-> m] :
      b \in BasePaths, spec \in PathSpecs,
      other \in { o \in PathSpecs : ValidValues(o) }, m \in Markers }

PartitionPathCall ==
    /\ call.fn = "partition_path" /\ ~call.done
    /\ call' = [call EXCEPT
          !.done = TRUE,
          !.out = The({ [path |-> path,
                         other_path |-> PartitionPath(call.table_path, call.other_spec),
                         marker_path |-> MarkerPath([_marker |-> call.marker], path)] :
                        path \in {PartitionPath(call.table_path, call.partition_spec)} })]
    /\ UNCHANGED <<stage, fs, ex, invocations, completed>>

\* --- _table_path ---
MaxTableLen == 5

TableTokens == {"hdfs://", "mjolnir", ".", "/"}

TableNames == UNION { [1..n -> TableTokens] : n \in 0..MaxTableLen }

TablePathCalls ==
    { [fn |-> "table_path", done |-> FALSE, out |-> NoneVal,
       qualified_table |-> t, lookup |-> l] :
      t \in TableNames, l \in Lookups }

TablePathCall ==
    /\ call.fn = "table_path" /\ ~call.done
    /\ call' = [call EXCEPT !.done = TRUE,
                            !.out = TablePath(call.qualified_table, call.lookup)]
    /\ UNCHANGED <<stage, fs, ex, invocations, completed>>

InitFn ==
    /\ stage = Unbuilt
    /\ fs = {}
    /\ ex = [p \in Procs |-> IdleExecution]
    /\ invocations = 0
    /\ completed = [d \in Dates |-> 0]
    /\ \/ call \in ApplyCalls
       \/ call \in ParseMemoryCalls
       \/ call \in ApplicationArgsCalls
       \/ call \in MergeCalls
       \/ call \in NewOperatorCalls
       \/ call \in PartitionPathCalls
       \/ call \in TablePathCalls
       \/ call \in SharedApplyRuns

NextFn ==
    \/ ApplyCall
    \/ ParseMemoryCall
    \/ ApplicationArgsCall
    \/ MergeSparkArgsCall
    \/ NewOperatorCall
    \/ PartitionPathCall
    \/ TablePathCall
    \/ \E p \in Procs : SharedApplyEnter(p)
    \/ \E p \in Procs : SharedApplyReturn(p)

SpecFn == InitFn /\ [][NextFn]_vars

(* ------------------------------------------------------------------ *)
(* Properties                                                         *)
(* ------------------------------------------------------------------ *)

\* worker p took a step of its execute call out of the position `at`
\* (and was not killed there)
Leaves(p, at) == ex[p].pc = at /\ ex'[p].pc # at /\ ex'[p].pc # "killed"

Published(e) == DOMAIN e.xcom = {"output-path"} /\ e.xcom["output-path"] = e.output_path

NothingRun(e) ==
    e.job = NoneVal /\ e.hook = NoneVal /\ e.submits = 0 /\ e.ext = "none"

C1_SkipStep ==
    \A p \in Procs :
        (Leaves(p, "resolved") /\ MarkerPath(stage, ex[p].output_path.s) \in fs) =>
            /\ ex'[p].pc = "skipped"
            /\ NothingRun(ex'[p])
            /\ ex'[p].reads = 0
            /\ Published(ex'[p])
            /\ ex'[p].output_path = ex[p].output_path
            /\ ex'[p].ret = NoneVal

C1_Skipped ==
    \A p \in Procs :
        ex[p].pc = "skipped" =>
            NothingRun(ex[p]) /\ Published(ex[p]) /\ ex[p].ret = NoneVal

PrepareErrors == {"TypeError", "AssertionError", "KeyError", "IOError"}

\* C2, as claimed: an execute call that checked the marker and ran to its
\* end submitted the runtime if and only if it found no marker.
C2_RunsIffNoMarker ==
    \A p \in Procs :
        (ex[p].pc \in {"skipped", "succeeded", "failed"} /\ ex[p].marker # "unchecked") =>
            (ex[p].submits > 0 <=> ex[p].marker = "absent")

C2_Inv ==
    /\ \A d \in Dates : completed[d] <= 1
    /\ \A p \in Procs :
        /\ ex[p].submits > 0 => ex[p].marker = "absent"
        /\ ex[p].submits <= 1
        /\ ex[p].pc = "succeeded" => ex[p].submits = 1 /\ completed[ex[p].ds] = 1
        /\ (ex[p].pc = "failed" /\ ex[p].marker = "absent" /\ ex[p].submits = 0) =>
              ex[p].err \in PrepareErrors

C2_Step ==
    \A p \in Procs :
        /\ Leaves(p, "resolved") =>
              /\ completed[ex[p].ds] = 0 => ex'[p].pc = "executing" /\ ex'[p].marker = "absent"
              /\ completed[ex[p].ds] > 0 => ex'[p].pc = "skipped" /\ ex'[p].submits = 0
        /\ Leaves(p, "executing") =>
              \/ ex'[p].pc = "sized"
              \/ ex'[p].pc = "failed" /\ ex'[p].err \in PrepareErrors
        /\ Leaves(p, "sized") => ex'[p].pc = "running" /\ ex'[p].submits = 1
        /\ (ex'[p].pc \in {"failed", "killed"} /\ ex[p].pc \notin {"failed", "killed"}) =>
              fs' = fs /\ completed' = completed

\* C2, amended: across non-overlapping execute calls for one Stage and
\* partition, with a transformer that writes the marker exactly when it
\* succeeds and nothing deleting it: a call submits the runtime only if it
\* found no marker, and a call that found none goes on to run and submits
\* the runtime exactly once unless argument building, auto-sizing or a kill
\* ends it first; a failed or killed run leaves no marker, so the next call
\* runs in full; once a run has succeeded every later call that reaches the
\* marker check is skipped, and the transformer completes with success at
\* most once per partition.
C2_MarkerDecidesRun == []C2_Inv /\ [][C2_Step]_vars

C2_Witness ==
    \E p, q \in Procs :
        /\ ex[p].pc = "succeeded" /\ ex[q].pc = "skipped"
        /\ ex[p].ds = ex[q].ds /\ completed[ex[p].ds] = 1

\* C3: the filesystem changes only in a step of the external transformer
\* finishing with success, which adds that run's marker; every step of the
\* engine, whatever the execution's outcome, leaves it as it was.
C3_EngineNeverWritesMarker ==
    [][ fs' # fs =>
          \E p \in Procs :
              /\ ex[p].pc = "running" /\ ex[p].ext = "running"
              /\ ex'[p].pc = "running" /\ ex'[p].ext = "exited_ok"
              /\ fs' = fs \cup {MarkerPath(stage, ex[p].output_path.s)} ]_vars

C3_Witness ==
    \E p \in Procs :
        ex[p].pc = "failed" /\ ex[p].submits = 1 /\ ex[p].ext = "exited_err" /\ fs = {}

\* C4: an execution that ended SKIPPED or SUCCEEDED has published, under
\* the xcom key 'output-path', the path whose marker it checked.
C4_PathPublished ==
    \A p \in Procs :
        ex[p].pc \in {"skipped", "succeeded"} =>
            /\ Published(ex[p])
            /\ ex[p].checked = StrVal(PathJoin2(ex[p].xcom["output-path"].s, stage._marker))

C4_Witness ==
    \E p, q \in Procs :
        /\ ex[p].pc = "succeeded" /\ ex[q].pc = "skipped"
        /\ ex[p].xcom = ex[q].xcom /\ DOMAIN ex[p].xcom # {}

C5_Inv ==
    \A p \in Procs :
        /\ ex[p].submits <= 1
        /\ ex[p].ext = "exited_err" =>
              /\ ex[p].pc \in {"running", "failed"}
              /\ ex[p].submits = 1
              /\ DOMAIN ex[p].xcom = {}

C5_Step ==
    \A p \in Procs :
        (ex[p].ext = "exited_err" /\ Leaves(p, "running")) =>
            /\ ex'[p].pc = "failed"
            /\ ex'[p].ret = Raised /\ ex'[p].err = "AirflowException"
            /\ ex'[p].submits = 1

\* C5: when the external process fails the execution ends FAILED with the
\* error raised out of execute; the runtime was submitted exactly once in
\* that call and no output path is published.
C5_ProcessFailureFails == []C5_Inv /\ [][C5_Step]_vars

C5_Witness ==
    \E p \in Procs :
        ex[p].pc = "failed" /\ ex[p].err = "AirflowException" /\ ex[p].submits = 1

\* a table name that is neither a filesystem URI nor database.table
NotQualified(table) ==
    /\ ~(Len(table) > 0 /\ table[1] = "hdfs://")
    /\ \A i \in 1..Len(table) : table[i] # "."

C6_Inv ==
    \A p \in Procs :
        /\ (ex[p].pc \notin {"idle", "pending", "killed"} /\ NotQualified(stage._table)) =>
              ex[p].pc = "failed" /\ ex[p].err = "ValueError"
        /\ (ex[p].pc = "failed" /\ ex[p].output_path = NoneVal) =>
              /\ ex[p].marker = "unchecked" /\ ex[p].checked = NoneVal
              /\ NothingRun(ex[p])
              /\ ex[p].reads = 0
              /\ DOMAIN ex[p].xcom = {}
              /\ ex[p].ret = Raised

C6_Step ==
    \A p \in Procs :
        Leaves(p, "pending") =>
            \/ ex'[p].pc = "resolved" /\ ex'[p].output_path # NoneVal
            \/ /\ ex'[p].pc = "failed" /\ ex'[p].output_path = NoneVal
               /\ ex'[p].err \in {"ValueError", "NoSuchObjectException"}
               /\ ex'[p].err = "NoSuchObjectException" <=> ex'[p].lookups = 1

\* C6: when path resolution fails (the table name is not qualified, or the
\* metastore lookup fails) the execution goes from PENDING straight to
\* FAILED with the error raised: no marker check, no runtime, nothing
\* published.
C6_ResolutionFailureFails == []C6_Inv /\ [][C6_Step]_vars

C6_Witness ==
    \E p \in Procs :
        /\ ex[p].pc = "failed" /\ ex[p].err = "NoSuchObjectException"
        /\ ex[p].lookups = 1 /\ ex[p].marker = "unchecked"

AutoSized(op) == op._transformer \in DOMAIN AUTO_DETECT_CONFIG.bytes_per_value

\* the artifact read was unreadable, or holds no per-wiki entry for the
\* wiki the Stage is for
MetadataUnusable(op, i) ==
    \/ ~MetadataTexts[i].ok
    \/ /\ op._transformer = "make_folds"
       /\ ItemsGet(op._transformer_args, "wiki").t = "str"
       /\ ~ /\ "num_obs" \in DOMAIN MetadataTexts[i].v
             /\ ItemsGet(op._transformer_args, "wiki").s
                    \in DOMAIN MetadataTexts[i].v["num_obs"]

\* C7: for an auto-sized kind, an artifact that cannot be read or lacks the
\* shard key fails the execution with the error raised: no job is built
\* from defaults, no hook is created or submitted, nothing is published.
C7_MetadataFailureFails ==
    \A p \in Procs :
        (stage.state = "built" /\ AutoSized(stage) /\ ex[p].md > 0
            /\ MetadataUnusable(stage, ex[p].md)) =>
            /\ ex[p].pc = "failed" /\ ex[p].ret = Raised
            /\ ex[p].err \in {"IOError", "KeyError"}
            /\ NothingRun(ex[p])
            /\ DOMAIN ex[p].xcom = {}

C7_Witness ==
    \E p \in Procs :
        /\ ex[p].pc = "failed" /\ ex[p].err = "KeyError"
        /\ ex[p].md > 0 /\ MetadataTexts[ex[p].md].ok

C8_Inv == \A p \in Procs : ex[p].ext = "running" => ex[p].pc = "running"

C8_Step ==
    \A p \in Procs :
        (ex[p].pc = "running" /\ ex[p].ext = "running" /\ ex'[p].pc = "killed") =>
            ex'[p].ext = "killed" /\ ex'[p].kills = ex[p].kills + 1

\* C8: a kill that arrives while the external process is in flight is
\* passed to the hook and ends the process: no process is left running
\* without an execute call waiting on it.
C8_KillReachesProcess == []C8_Inv /\ [][C8_Step]_vars

C8_Witness ==
    \E p \in Procs : ex[p].pc = "killed" /\ ex[p].ext = "killed" /\ ex[p].kills = 1

\* C9: nothing another execute call does holds a call back: a call at its
\* marker check with no marker written can always go on to run, and a call
\* with its job prepared can always submit, whatever the other calls for
\* the same partition are doing.
C9_NoLock ==
    \A p \in Procs :
        /\ (ex[p].pc = "resolved" /\ MarkerPath(stage, ex[p].output_path.s) \notin fs) =>
              ENABLED (ExecuteCheckMarker(p) /\ ex'[p].pc = "executing")
        /\ ex[p].pc = "sized" => ENABLED (ExecuteSubmit(p) /\ ex'[p].ext = "running")

C9_Witness ==
    \E p, q \in Procs :
        /\ p # q /\ ex[p].ds = ex[q].ds
        /\ ex[p].pc = "running" /\ ex[p].ext = "running"
        /\ ex[q].pc = "running" /\ ex[q].ext = "running"
        /\ ex[p].output_path = ex[q].output_path

\* the transformer kind a constructor call names
KindOf(a) == IF a.transformer # NoTransformer THEN a.transformer ELSE a.task_id

\* C10: a constructor call whose kind (the transformer argument, or the
\* task id without one) is not in KNOWN_TRANSFORMERS is rejected, and no
\* metastore lookup, marker check or metadata read has happened.
C10_UnknownKindRejected ==
    (stage.state # "none" /\ KindOf(stage.args) \notin KNOWN_TRANSFORMERS) =>
        /\ stage.state = "rejected" /\ stage.err = "ValueError"
        /\ fs = {}
        /\ \A p \in Procs :
              ex[p].lookups = 0 /\ ex[p].marker = "unchecked" /\ ex[p].reads = 0

C10_Witness ==
    /\ stage.state = "rejected"
    /\ stage.args.transformer = NoTransformer
    /\ stage.args.task_id \notin KNOWN_TRANSFORMERS

\* an argument payload with a null value, alone or inside a list
HasNullArg(items) ==
    \E i \in 1..Len(items) :
        \/ items[i][2].t = "none"
        \/ items[i][2].t = "list" /\ \E j \in 1..Len(items[i][2].xs) : items[i][2].xs[j].t = "none"

\* a constructor call of a known kind with a table name that is not
\* qualified, or with a null argument value
Malformed(a) ==
    /\ KindOf(a) \in KNOWN_TRANSFORMERS
    /\ NotQualified(a.table) \/ HasNullArg(a.transformer_args)

\* C11, as claimed: constructing a Stage with a table name that is not
\* fully qualified, or with a null argument value, fails at construction.
C11_RejectedAtConstruction ==
    (stage.state # "none" /\ Malformed(stage.args)) => stage.state = "rejected"

C11_Inv ==
    (stage.state # "none" /\ Malformed(stage.args)) =>
        /\ stage.state = "built"
        /\ \A p \in Procs :
            /\ ex[p].pc \notin {"sized", "running", "succeeded"}
            /\ NothingRun(ex[p])
            /\ NotQualified(stage.args.table) =>
                  /\ ex[p].pc \in {"idle", "pending", "failed", "killed"}
                  /\ ex[p].marker = "unchecked"
                  /\ ex[p].pc = "failed" => ex[p].err = "ValueError" /\ ex[p].lookups = 0
            /\ (ex[p].pc = "failed" /\ ex[p].marker = "absent") =>
                  ex[p].err = "TypeError" /\ ex[p].ret = Raised

C11_Step ==
    \A p \in Procs :
        (stage.state = "built" /\ Malformed(stage.args)) =>
            /\ Leaves(p, "pending") /\ NotQualified(stage.args.table) => ex'[p].pc = "failed"
            /\ Leaves(p, "executing") =>
                  ex'[p].pc = "failed" /\ ex'[p].err = "TypeError" /\ ex'[p].reads = 0

\* C11, amended: a table name that is not fully qualified and a null
\* argument value are not checked at construction: the constructor
\* succeeds, and the error is raised when execute runs, by path resolution
\* (ValueError, before the marker check) for the table name and by
\* _application_args (TypeError, once the marker check has found no marker
\* and before any hook is created) for the null value.
C11_RejectedAtExecute == []C11_Inv /\ [][C11_Step]_vars

C11_Witness ==
    /\ stage.state = "built" /\ HasNullArg(stage.args.transformer_args)
    /\ \E p \in Procs : ex[p].pc = "failed" /\ ex[p].err = "TypeError"

(* --- the auto-sizer, under SpecFn --- *)

Min2(a, b) == IF a < b THEN a ELSE b

\* The megabytes the memory values of the drawn calls stand for.
MbOf(v) ==
    IF v.t = "int" THEN v.n
    ELSE CASE v.s = <<"2", "G">> -> 2048
           [] v.s = <<"2", "g">> -> 2048
           [] v.s = <<"5", "0", "G">> -> 51200
           [] v.s = <<"1", "G">> -> 1024
           [] v.s = <<"1", "g">> -> 1024
           [] v.s = <<"5", "1", "2", "M">> -> 512
           [] v.s = <<"5", "1", "2", "G">> -> 524288
           [] v.s = <<"1", "T">> -> 1048576
           [] v.s = <<"2", "T">> -> 2097152

CoresOf(conf) ==
    IF "spark.executor.cores" \notin DOMAIN conf THEN 1
    ELSE IF conf["spark.executor.cores"].t = "int" THEN conf["spark.executor.cores"].n
    ELSE 4

OverheadMbOf(conf) ==
    IF "spark.executor.memoryOverhead" \in DOMAIN conf
    THEN MbOf(conf["spark.executor.memoryOverhead"]) ELSE 256

Returned(fn) == call.fn = fn /\ call.done

Registered == call.transformer \in DOMAIN call.config.bytes_per_value

\* C12: whenever apply returns, for a registered kind or not, the conf it
\* returns holds as maxExecutors the smaller of floor(memory budget /
\* (executor memory + memory overhead, 256 MB when unset)) and floor(core
\* budget / executor cores, 1 when unset), whatever was there before; with
\* a budget of 1,048,576 MB and 450 cores, executor memory "2G" and 6
\* executor cores that is 75.  A kind that is not registered always returns.
C12_ExecutorCap ==
    Returned("apply") =>
        /\ ~Registered => call.out.ok
        /\ call.out.ok =>
            /\ call.out.v["spark.dynamicAllocation.maxExecutors"] =
                  IntVal(Min2(MbOf(call.config.agg_memory_limit)
                                \div (MbOf(call.out.v["spark.executor.memory"])
                                      + OverheadMbOf(call.out.v)),
                              call.config.agg_cores_limit \div CoresOf(call.out.v)))
            /\ call.out.v["spark.executor.memory"] = call.spark_conf["spark.executor.memory"]
            /\ CoresOf(call.out.v) = CoresOf(call.spark_conf)
            /\ ( /\ call.config = AUTO_DETECT_CONFIG
                 /\ call.spark_conf = SizerConf(StrVal(<<"2", "G">>), Absent, IntVal(6))
                 /\ ~Registered )
               => call.out.v["spark.dynamicAllocation.maxExecutors"] = IntVal(75)

C12_Witness ==
    /\ Returned("apply") /\ call.out.ok
    /\ call.config = AUTO_DETECT_CONFIG
    /\ call.spark_conf = SizerConf(StrVal(<<"2", "G">>), Absent, IntVal(6))
    /\ call.out.v["spark.dynamicAllocation.maxExecutors"] = IntVal(75)

\* floor(num_obs * (num_features + 1) * bytes_per_value / 2^20); the one
\* product of the drawn calls that does not fit 32 bits is written out.
MatrixMb(num_obs, num_features, bytes_per_value) ==
    IF num_obs = 1000000 /\ num_features = 99 /\ bytes_per_value = 30 THEN 2861
    ELSE (num_obs * (num_features + 1) * bytes_per_value) \div 1048576

\* The figures the artifact holds for the call: the wiki's entry of the
\* per-wiki shape for make_folds, the single shape for the other kinds.
FiguresOf(c) ==
    LET md == SizerMetadata[c.md].v
    IN  IF c.transformer = "make_folds"
        THEN <<md["num_obs"][c.wiki.s], Len(md["wiki_features"][c.wiki.s])>>
        ELSE <<md["metadata"].num_obs, Len(md["metadata"].features)>>

\* C13: when apply returns for a registered kind, the conf it returns holds
\* as memoryOverhead the baseline overhead plus floor(num_obs *
\* (num_features + 1) * bytes_per_value / 2^20), whatever was there before;
\* for 1,000,000 observations, 99 features, 30 bytes per value and a
\* baseline of 512 MB that is 3373.
C13_OverheadEstimate ==
    (Returned("apply") /\ Registered /\ call.out.ok) =>
        /\ call.out.v["spark.executor.memoryOverhead"] =
              IntVal(MbOf(call.config.baseline_memory_overhead)
                     + MatrixMb(FiguresOf(call)[1], FiguresOf(call)[2],
                                call.config.bytes_per_value[call.transformer]))
        /\ ( /\ call.config = AUTO_DETECT_CONFIG
             /\ call.transformer \in {"make_folds", "hyperparam"}
             /\ call.md \in {2, 3} )
           => call.out.v["spark.executor.memoryOverhead"] = IntVal(3373)

C13_Witness ==
    /\ Returned("apply") /\ Registered /\ call.out.ok
    /\ call.config = AUTO_DETECT_CONFIG
    /\ "spark.executor.memoryOverhead" \in DOMAIN call.spark_conf
    /\ call.spark_conf["spark.executor.memoryOverhead"] = StrVal(<<"1", "G">>)
    /\ call.out.v["spark.executor.memoryOverhead"] = IntVal(3373)

\* C14: for a kind that is not registered apply reads no metadata, returns
\* the conf with the memoryOverhead entry as supplied (absent stays absent)
\* and every other entry but maxExecutors as supplied, and sets maxExecutors.
C14_UnregisteredKind ==
    (Returned("apply") /\ ~Registered) =>
        /\ call.out.ok /\ call.out.reads = 0
        /\ DOMAIN call.out.v = DOMAIN call.spark_conf
        /\ \A k \in DOMAIN call.spark_conf \ {"spark.dynamicAllocation.maxExecutors"} :
              call.out.v[k] = call.spark_conf[k]
        /\ call.out.v["spark.dynamicAllocation.maxExecutors"].t = "int"

C14_Witness ==
    /\ Returned("apply") /\ ~Registered /\ call.out.ok
    /\ call.md = 1 /\ call.metadata_dir = NoneVal
    /\ "spark.executor.memoryOverhead" \notin DOMAIN call.out.v
    /\ call.out.v["spark.dynamicAllocation.maxExecutors"] # call.spark_conf["spark.dynamicAllocation.maxExecutors"]

\* the artifact holds an entry for the wiki in the per-wiki shape
HasShard(md, wiki) ==
    /\ "num_obs" \in DOMAIN md /\ "wiki_features" \in DOMAIN md
    /\ wiki.s \in DOMAIN md["num_obs"] /\ wiki.s \in DOMAIN md["wiki_features"]

\* C15: for a registered kind whose artifact was read: with a wiki given to
\* make_folds apply uses that wiki's entry of the per-wiki shape and fails
\* when the artifact has none; without a wiki the other kinds use the
\* single shape; make_folds without a wiki and another kind with one fail.
C15_ShardKey ==
    ( /\ Returned("apply") /\ Registered
      /\ call.metadata_dir # NoneVal /\ SizerMetadata[call.md].ok ) =>
        LET md == SizerMetadata[call.md].v
            estimate == IntVal(MbOf(call.config.baseline_memory_overhead)
                               + MatrixMb(FiguresOf(call)[1], FiguresOf(call)[2],
                                          call.config.bytes_per_value[call.transformer]))
        IN  /\ call.out.reads = 1
            /\ (call.transformer = "make_folds" /\ call.wiki # NoneVal) =>
                  /\ call.out.ok <=> HasShard(md, call.wiki)
                  /\ ~call.out.ok => call.out.err = "KeyError"
                  /\ call.out.ok => call.out.v["spark.executor.memoryOverhead"] = estimate
            /\ (call.transformer # "make_folds" /\ call.wiki = NoneVal) =>
                  /\ call.out.ok <=> "metadata" \in DOMAIN md
                  /\ ~call.out.ok => call.out.err = "KeyError"
                  /\ call.out.ok => call.out.v["spark.executor.memoryOverhead"] = estimate
            /\ (call.transformer = "make_folds" <=> call.wiki = NoneVal) =>
                  ~call.out.ok /\ call.out.err = "AssertionError"

C15_Witness ==
    /\ Returned("apply") /\ call.transformer = "make_folds"
    /\ call.wiki = StrVal(<<"dewiki">>) /\ call.md = 2
    /\ call.metadata_dir # NoneVal
    /\ ~call.out.ok /\ call.out.err = "KeyError"

(* --- memory parsing, under SpecFn --- *)

DigitOf(c) == CHOOSE d \in 0..9 : <<"0", "1", "2", "3", "4", "5", "6", "7", "8", "9">>[d + 1] = c

RECURSIVE DigitsValue(_, _)
DigitsValue(s, acc) ==
    IF s = <<>> THEN acc ELSE DigitsValue(Tail(s), acc * 10 + DigitOf(Head(s)))

AllDigits(s) == s # <<>> /\ \A i \in 1..Len(s) : s[i] \in Digits

\* an integer in decimal, with or without a sign
IsNumeral(s) ==
    \/ AllDigits(s)
    \/ Len(s) > 1 /\ s[1] \in {"-", "+"} /\ AllDigits(Tail(s))

NumeralValue(s) ==
    IF s[1] = "-" THEN 0 - DigitsValue(Tail(s), 0)
    ELSE IF s[1] = "+" THEN DigitsValue(Tail(s), 0)
    ELSE DigitsValue(s, 0)

UnitScale(c) ==
    CASE c \in {"T", "t"} -> 1048576 [] c \in {"G", "g"} -> 1024 [] c \in {"M", "m"} -> 1

\* a numeral followed by one of the unit letters, in either case
IsSuffixed(v) ==
    /\ v.t = "str" /\ Len(v.s) > 1
    /\ v.s[Len(v.s)] \in {"T", "t", "G", "g", "M", "m"}
    /\ IsNumeral(SubSeq(v.s, 1, Len(v.s) - 1))

SuffixedValue(v) == NumeralValue(SubSeq(v.s, 1, Len(v.s) - 1)) * UnitScale(v.s[Len(v.s)])

ParseExamples ==
    /\ call.memory = StrVal(<<"2", "G">>) => call.out = Ok(2048)
    /\ call.memory = StrVal(<<"5", "1", "2", "M">>) => call.out = Ok(512)
    /\ call.memory = StrVal(<<"1", "T">>) => call.out = Ok(1048576)
    /\ call.memory = IntVal(2048) => call.out = Ok(2048)
    /\ call.memory = StrVal(<<"2", "X">>) => ~call.out.ok

\* C16, as claimed: an integer is returned unchanged, a numeral with a
\* unit suffix yields the numeral times the unit's scale, and every other
\* form fails.
C16_SuffixedOrInteger ==
    Returned("parse_memory") =>
        /\ ParseExamples
        /\ call.memory.t = "int" => call.out = Ok(call.memory.n)
        /\ IsSuffixed(call.memory) => call.out = Ok(SuffixedValue(call.memory))
        /\ (call.memory.t # "int" /\ ~IsSuffixed(call.memory)) => ~call.out.ok

\* C16, amended: an integer is returned unchanged; a string of decimal
\* digits alone is returned as that number of MB; a string made of an
\* integer prefix and a trailing T, G or M in either case yields the prefix
\* times 2^20, 2^10 or 1, so "2G" = 2048, "512M" = 512, "1T" = 1048576 and
\* 2048 = 2048; every other form (for example "2X") fails with an error and
\* yields no value.
C16_ParseMemory ==
    Returned("parse_memory") =>
        /\ ParseExamples
        /\ call.memory.t = "int" => call.out = Ok(call.memory.n)
        /\ (call.memory.t = "str" /\ AllDigits(call.memory.s)) =>
              call.out = Ok(DigitsValue(call.memory.s, 0))
        /\ IsSuffixed(call.memory) => call.out = Ok(SuffixedValue(call.memory))
        /\ ( /\ call.memory.t # "int"
             /\ ~(call.memory.t = "str" /\ AllDigits(call.memory.s))
             /\ ~IsSuffixed(call.memory) )
           => ~call.out.ok

C16_Witness ==
    /\ Returned("parse_memory")
    /\ call.memory = StrVal(<<"2", "0", "4", "8">>)
    /\ call.out = Ok(2048)

(* --- argument serialization, under SpecFn --- *)

\* the strings a payload value is passed as: its own, or those of its elements
ValueStrings(v) ==
    LET one(x) == IF x.t = "int" THEN <<"5">> ELSE x.s
    IN  IF v.t = "list" THEN [j \in 1..Len(v.xs) |-> one(v.xs[j])] ELSE <<one(v)>>

\* '--key' and its values, or nothing when the payload has no such key
KeySegment(items, k) ==
    IF \E i \in 1..Len(items) : items[i][1] = k
    THEN << <<"--", k>> >> \o ValueStrings(items[CHOOSE i \in 1..Len(items) : items[i][1] = k][2])
    ELSE <<>>

\* C17: two Stages given the same payload in different insertion orders
\* render the same argument list: the transformer, --date and the date,
\* --output-path and the path, then the payload sorted by key, each key as
\* '--key' followed by its value or by the values of its list in order.
C17_ArgsSorted ==
    Returned("application_args") =>
        /\ call.out[1] = call.out[2]
        /\ call.out[1] =
              Ok(<< <<"make_folds">>, <<"--date">>, <<call.ds>>, <<"--output-path">>,
                    call.output_path >>
                 \o KeySegment(call.a, "num-folds")
                 \o KeySegment(call.a, "output-table")
                 \o KeySegment(call.a, "wiki"))

C17_Witness ==
    /\ Returned("application_args")
    /\ Len(call.a) = 3 /\ call.a[1][1] = "wiki" /\ call.a[1][2].t = "list"
    /\ call.b[1][1] = "output-table" /\ call.b[3][1] = "wiki"
    /\ call.out[1].ok /\ Len(call.out[1].v) = 12

(* --- the merge of spark arguments, under SpecFn --- *)

InBoth(k) == k \in DOMAIN call.default /\ k \in DOMAIN call.override

\* C18: for 'packages', 'jars' and 'archives' present in default and
\* override the merge yields default + "," + override; for every other
\* key but conf the override's value wins, and a key of one side only
\* keeps its value.
C18_ListKeysConcatenated ==
    Returned("merge_spark_args") =>
        /\ DOMAIN call.out = (DOMAIN call.default) \cup (DOMAIN call.override)
        /\ \A k \in DOMAIN call.out :
            /\ (k \in {"packages", "jars", "archives"} /\ InBoth(k)) =>
                  call.out[k] = StrVal(call.default[k].s \o <<",">> \o call.override[k].s)
            /\ (k \notin {"packages", "jars", "archives", "conf"} /\ InBoth(k)) =>
                  call.out[k] = call.override[k]
            /\ (k \in DOMAIN call.default /\ k \notin DOMAIN call.override) =>
                  call.out[k] = call.default[k]
            /\ (k \notin DOMAIN call.default /\ k \in DOMAIN call.override) =>
                  call.out[k] = call.override[k]

\* the merge of two maps at every depth, the second winning on collisions
RECURSIVE DeepMerge(_, _)
DeepMerge(a, b) ==
    [k \in (DOMAIN a) \cup (DOMAIN b) |->
        IF k \notin DOMAIN b THEN a[k]
        ELSE IF k \notin DOMAIN a THEN b[k]
        ELSE IF a[k].t = "dict" /\ b[k].t = "dict" THEN DictVal(DeepMerge(a[k].d, b[k].d))
        ELSE b[k]]

KeyCount(spec, key) == Cardinality({ i \in 1..Len(spec) : spec[i][1] = key })

\* C20: a constructed Stage, those the pipeline constructors build
\* included, holds a partition spec in which no key occurs twice, and the
\* path rendered from it has one segment for each key.
C20_KeysUnique ==
    (Returned("init") /\ call.out.state = "built") =>
        /\ \A i \in 1..Len(call.out._partition_spec) :
              KeyCount(call.out._partition_spec, call.out._partition_spec[i][1]) = 1
        /\ CountTok(PartitionPath(<<"hdfs://", "analytics-hadoop", "/", "t">>,
                                  RenderSpec(call.out._partition_spec, [ds_nodash |-> call.ds])),
                    "=") = Cardinality({ call.out._partition_spec[i][1] :
                                         i \in 1..Len(call.out._partition_spec) })

\* C21: every constructed Stage's partition spec begins with an entry of
\* key 'date' whose value renders to the run's logical date, and the
\* caller's entries follow it unchanged, whatever partition_spec the
\* caller passed, the empty one included.
C21_DateEntryFirst ==
    (Returned("init") /\ call.out.state = "built") =>
        /\ Len(call.out._partition_spec) = Len(call.args.partition_spec) + 1
        /\ call.out._partition_spec[1][1] = <<"date">>
        /\ RenderSpec(call.out._partition_spec, [ds_nodash |-> call.ds])[1]
              = << <<"date">>, <<call.ds>> >>
        /\ \A i \in 1..Len(call.args.partition_spec) :
              call.out._partition_spec[i + 1] = call.args.partition_spec[i]

C21_Witness ==
    /\ Returned("init") /\ call.out.state = "built"
    /\ call.args.partition_spec = <<>>
    /\ call.ds = "20200115"
    /\ RenderSpec(call.out._partition_spec, [ds_nodash |-> call.ds])
          = << << <<"date">>, <<"20200115">> >> >>

(* --- path rendering and table resolution, under SpecFn --- *)

\* the pieces of s between the occurrences of tok; a trailing tok ends the
\* last piece
RECURSIVE SplitOn(_, _)
SplitOn(s, tok) ==
    IF s = <<>> THEN <<>>
    ELSE IF \A i \in 1..Len(s) : s[i] # tok THEN <<s>>
    ELSE The({ <<SubSeq(s, 1, i - 1)>> \o SplitOn(SubSeq(s, i + 1, Len(s)), tok) :
               i \in { CHOOSE n \in 1..Len(s) : s[n] = tok /\ \A k \in 1..(n - 1) : s[k] # tok } })

StripSlash(base) ==
    IF base # <<>> /\ base[Len(base)] = "/" THEN SubSeq(base, 1, Len(base) - 1) ELSE base

\* path lies under base, and these are its segments below base, in order
SegmentsBelow(path, base, segments) ==
    \E stem \in {StripSlash(base)} :
        /\ Len(path) >= Len(stem)
        /\ SubSeq(path, 1, Len(stem)) = stem
        /\ \E rest \in {SubSeq(path, Len(stem) + 1, Len(path))} :
              /\ rest # <<>> => rest[1] = "/"
              /\ SplitOn(IF rest = <<>> THEN <<>> ELSE Tail(rest), "/") = segments

\* the segments 'key=value' of a spec, in spec order
KeyValueSegments(spec) ==
    [i \in 1..Len(spec) |-> spec[i][1] \o <<"=">> \o spec[i][2]]

\* C22: for a base path and a partition spec (its values not empty and
\* free of separators), the rendered path is the base path followed by
\* exactly one segment per entry, 'key=value', in spec order; the marker
\* location is that path joined with the Stage's marker name.
C22_PathRendering ==
    (Returned("partition_path") /\ ValidValues(call.partition_spec)) =>
        /\ SegmentsBelow(call.out.path, call.table_path,
                         KeyValueSegments(call.partition_spec))
        /\ SegmentsBelow(call.out.marker_path, call.table_path,
                         KeyValueSegments(call.partition_spec) \o <<call.marker>>)

C22_Witness ==
    /\ Returned("partition_path")
    /\ call.table_path = <<"hdfs://", "analytics-hadoop", "/", "t">>
    /\ call.partition_spec = << << <<"wikiid">>, <<"dbn">> >>,
                                << <<"algorithm">>, <<"algorithm", "=", "dbn">> >> >>
    /\ call.marker = <<"_SUCCESS">>
    /\ call.out.path = <<"hdfs://", "analytics-hadoop", "/", "t", "/", "wikiid", "=", "dbn",
                         "/", "algorithm", "=", "algorithm", "=", "dbn">>
    /\ call.out.marker_path = call.out.path \o <<"/", "_SUCCESS">>

\* no key of the spec holds '=' or a path separator
PlainKeys(spec) ==
    \A i \in 1..Len(spec) : \A n \in 1..Len(spec[i][1]) : spec[i][1][n] \notin {"=", "/"}

\* C23: for a fixed base path, two valid partition specs (unique keys,
\* values not empty and free of separators) that differ in a key, a value
\* or the order of entries never render the same path.
C23_RenderInjective ==
    (/\ Returned("partition_path")
     /\ ValidValues(call.partition_spec) /\ ValidValues(call.other_spec)
     /\ call.partition_spec # call.other_spec)
        => call.out.path # call.out.other_path

\* C23, amended: for a fixed base path, two valid partition specs whose
\* keys hold neither '=' nor a path separator, and that differ in a key, a
\* value or the order of entries, never render the same path.
C23_RenderInjectivePlainKeys ==
    (/\ Returned("partition_path")
     /\ ValidValues(call.partition_spec) /\ ValidValues(call.other_spec)
     /\ PlainKeys(call.partition_spec) /\ PlainKeys(call.other_spec)
     /\ call.partition_spec # call.other_spec)
        => call.out.path # call.out.other_path

C23_Witness ==
    /\ Returned("partition_path")
    /\ call.partition_spec = << << <<"wikiid">>, <<"dbn">> >>, << <<"algorithm">>, <<"dbn">> >> >>
    /\ call.other_spec = << << <<"algorithm">>, <<"dbn">> >>, << <<"wikiid">>, <<"dbn">> >> >>
    /\ call.out.path # call.out.other_path
    /\ Len(call.out.path) = Len(call.out.other_path)

\* C24: a partition spec entry whose value is empty or holds a path
\* separator is rejected when the Stage is constructed, so that no such
\* value reaches the rendering of the path.
C24_BadValueRejected ==
    Returned("init") =>
        \/ call.out.state = "rejected"
        \/ /\ ValidValues(call.args.partition_spec)
           /\ ValidValues(RenderSpec(call.out._partition_spec, [ds_nodash |-> call.ds]))

\* the number of '.' separators of a table name
Separators(name) == Cardinality({ i \in 1..Len(name) : name[i] = "." })

IsUri(name) == name # <<>> /\ name[1] = "hdfs://"

\* C25: table resolution makes at most one metastore lookup and the form
\* of the name fixes its course: an hdfs:// URI is returned unchanged with
\* no lookup; a name with exactly one separator causes exactly one lookup
\* and returns the location the metastore records (or fails as the lookup
\* fails); a name with no separator or more than one fails with no lookup.
C25_TableResolution ==
    Returned("table_path") =>
        /\ call.out.lookups <= 1
        /\ IsUri(call.qualified_table) =>
              call.out = [ok |-> TRUE, v |-> call.qualified_table, lookups |-> 0]
        /\ (~IsUri(call.qualified_table) /\ Separators(call.qualified_table) = 1) =>
              /\ call.out.lookups = 1
              /\ call.out.ok = call.lookup.ok
              /\ call.lookup.ok => call.out.v = call.lookup.v
              /\ ~call.lookup.ok => call.out.err = call.lookup.err
        /\ (~IsUri(call.qualified_table) /\ Separators(call.qualified_table) # 1) =>
              /\ ~call.out.ok
              /\ call.out.lookups = 0

C25_Witness ==
    /\ Returned("table_path")
    /\ call.qualified_table = <<"mjolnir", ".", "mjolnir", ".", "mjolnir">>
    /\ call.lookup.ok
    /\ ~call.out.ok /\ call.out.err = "ValueError" /\ call.out.lookups = 0

(* --- the auto-sizer's budget, under SpecFn --- *)

\* C28: whenever apply returns a conf, its maxExecutors m satisfies
\* m * (executor memory + the memory overhead of the returned conf, the
\* estimated one for a registered kind) <= the memory budget in MB and
\* m * executor cores <= the core budget; m is 0 when one executor's
\* memory exceeds the memory budget.
C28_BudgetRespected ==
    (Returned("apply") /\ call.out.ok) =>
        \E m \in {call.out.v["spark.dynamicAllocation.maxExecutors"].n},
           footprint \in {MbOf(call.out.v["spark.executor.memory"]) + OverheadMbOf(call.out.v)} :
            /\ m >= 0
            /\ m * footprint <= MbOf(call.config.agg_memory_limit)
            /\ m * CoresOf(call.out.v) <= call.config.agg_cores_limit
            /\ footprint > MbOf(call.config.agg_memory_limit) => m = 0

C28_Witness ==
    /\ Returned("apply") /\ call.out.ok /\ Registered
    /\ call.spark_conf["spark.executor.memory"] = StrVal(<<"2", "T">>)
    /\ call.out.v["spark.executor.memoryOverhead"] = IntVal(3373)
    /\ call.out.v["spark.dynamicAllocation.maxExecutors"] = IntVal(0)

(* --- apply called from several executions at once, under SpecFn --- *)

BeforeRunning == {"pending", "resolved", "executing", "sized"}

C29_Inv ==
    \A p \in Procs :
        /\ ex[p].pc \in {"idle", "skipped"} \cup BeforeRunning => ex[p].hook = NoneVal
        /\ ex[p].hook # NoneVal =>
              /\ ex[p].marker = "absent"
              /\ ex[p].job # NoneVal /\ ex[p].hook = ex[p].job
              /\ ex[p].submits = 1

C29_Step ==
    \A p \in Procs :
        /\ (ex[p].hook = NoneVal /\ ex'[p].hook # NoneVal) =>
              ex[p].pc = "sized" /\ ex'[p].pc = "running"
        /\ (ex[p].pc \in BeforeRunning /\ ex'[p].pc = "killed") =>
              /\ ex'[p].err = "AttributeError" /\ ex'[p].ret = Raised
              /\ ex'[p].kills = 0 /\ ex'[p].ext = "none" /\ ex'[p].hook = NoneVal

\* C29: an execution holds a hook only once it is running: the hook is
\* assigned in _execute alone, after the marker was found absent and the
\* arguments, the merged profile and the sizing were all built; an on_kill
\* that arrives earlier (pending, path resolved, marker checked, job being
\* prepared or sized) finds no hook and fails with AttributeError, killing
\* nothing.
C29_HookOnlyWhenRunning == []C29_Inv /\ [][C29_Step]_vars

C29_Witness ==
    \E p, q \in Procs :
        /\ ex[p].pc = "killed" /\ ex[p].err = "AttributeError" /\ ex[p].hook = NoneVal
        /\ ex[p].job # NoneVal /\ ex[p].kills = 0
        /\ ex[q].pc = "running" /\ ex[q].hook # NoneVal /\ ex[q].marker = "absent"

(* --- the reference to a Stage's output path, under Spec --- *)

\* C27: the reference to a Stage's output path is built from the
\* constructed Stage alone, before any execution and with no metastore or
\* filesystem access; rendered against a run in which the Stage ended
\* skipped or succeeded it yields exactly the output path that execution
\* resolved and pushed, and against an execution that has pushed nothing
\* it yields None.
C27_OutputPathReference ==
    stage.state = "built" =>
        /\ OutputPathRef(stage).task_ids = stage.args.task_id
        /\ (\A p \in Procs : ex[p].pc = "idle") =>
              /\ fs = {}
              /\ \A p \in Procs :
                    ex[p].lookups = 0
                    /\ XcomPull(XcomOf(stage, ex[p]), OutputPathRef(stage)) = NoneVal
        /\ \A p \in Procs :
              /\ ex[p].pc \in {"skipped", "succeeded"} =>
                    /\ ex[p].output_path # NoneVal
                    /\ XcomPull(XcomOf(stage, ex[p]), OutputPathRef(stage)) = ex[p].output_path
              /\ ex[p].pc \in InFlight \cup {"failed", "killed"} =>
                    XcomPull(XcomOf(stage, ex[p]), OutputPathRef(stage)) = NoneVal

C27_Witness ==
    /\ stage.state = "built" /\ stage.task_id # stage._transformer
    /\ \E p, q \in Procs :
          /\ ex[p].pc = "skipped" /\ ex[q].pc = "succeeded"
          /\ XcomPull(XcomOf(stage, ex[p]), OutputPathRef(stage)) = ex[p].output_path
          /\ XcomPull(XcomOf(stage, ex[q]), OutputPathRef(stage)) = ex[q].output_path
          /\ ex[p].output_path.t = "str"

=============================================================================
